---------------------------- MODULE Spec2Model ----------------------------
(***************************************************************************)
(* Model of the scan lookup, mask reconstruction and consensus operations  *)
(* of LIDCAnnotationLoader (src/utils/lidc_loader.py) and of the           *)
(* coordinate conversions of LUNA16DataLoader (src/utils/data_loader.py).  *)
(*                                                                         *)
(* A 3D boolean array is a record [shape, true]: its shape and the set of  *)
(* index triples (0-based, local to the array) that hold True.  A bounding *)
(* box is a tuple of three slices [start, stop].  A float vote volume is   *)
(* kept as the integer count per voxel together with its divisor; a        *)
(* threshold is the fraction num/den.  None is the record NoneResult.      *)
(***************************************************************************)
EXTENDS Integers, Sequences, FiniteSets

(***************************************************************************)
(* Bound of the model: the largest cluster (annotations of one nodule).    *)
(***************************************************************************)
MaxCluster == 3

\* the store lookups of one uid a behaviour may make
MaxQueries == 2

\* the largest coordinate (mm, in absolute value) of a point converted
MaxCoord == 3

\* the longest list of uids handed to map_luna16_to_lidc
MaxBatch == 3

\* the threads that call get_scan_by_seriesuid on one loader
MaxThreads == 2

----------------------------------------------------------------------------
(* Arithmetic and sequence helpers                                         *)

Min2(a, b) == IF a <= b THEN a ELSE b

Max2(a, b) == IF a >= b THEN a ELSE b

\* min(...) / np.min over a non-empty set of integers
SetMin(S) == CHOOSE m \in S : \A x \in S : m <= x

\* max(...) / np.max over a non-empty set of integers
SetMax(S) == CHOOSE m \in S : \A x \in S : m >= x

\* the values a sequence holds
Range(s) == {s[i] : i \in 1..Len(s)}

\* all sequences over S of length 0..n
SeqsUpTo(S, n) == UNION {[1..k -> S] : k \in 0..n}

\* the index set of an array of the given shape
Indices(shape) ==
    {<<i, j, k>> : i \in 0..(shape[1] - 1), j \in 0..(shape[2] - 1),
                   k \in 0..(shape[3] - 1)}

\* Python list indexing xs[idx] of a list held as a 1-based sequence:
\* a negative idx counts from the end; outside -len..len-1 it raises.
PyIndexOk(xs, idx) == -Len(xs) <= idx /\ idx < Len(xs)

PyIndex(xs, idx) == IF idx >= 0 THEN xs[idx + 1] ELSE xs[Len(xs) + idx + 1]

\* Python/numpy basic slice lo:hi on an axis of length n (step 1): negative
\* bounds count from the end, then both are clipped to 0..n.
PySliceBound(b, n) == IF b < 0 THEN Max2(b + n, 0) ELSE Min2(b, n)

PySlice(lo, hi, n) ==
    LET a == PySliceBound(lo, n)
        b == PySliceBound(hi, n)
    IN  [start |-> a, stop |-> Max2(a, b)]

\* IEEE 754 arithmetic of the vote volume (dtype=np.float32) and of the
\* threshold (a Python float, binary64).  A positive binary32 value is held as
\* [m, e], meaning m / 2^e with 2^23 <= m < 2^24; a positive binary64 value as
\* [hi, lo, e], meaning (hi * 2^29 + lo) / 2^(e + 29) with 2^23 <= hi < 2^24
\* and 0 <= lo < 2^29; zero has m = 0 (hi = 0, lo = 0).  Only values >= 0 in
\* the normal range occur, and the two results of a division by zero.
float32_zero == [m |-> 0, e |-> 0]

float32_inf == [m |-> 2^24, e |-> 0]

float32_nan == [m |-> -1, e |-> 0]

float64_zero == [hi |-> 0, lo |-> 0, e |-> 0]

\* num / den = (nz.num / nz.den) / 2^nz.exp  with  1 <= nz.num / nz.den < 2
RECURSIVE normalize(_, _, _)
normalize(num, den, exp) ==
    IF num < den THEN normalize(2 * num, den, exp + 1)
    ELSE IF num >= 2 * den THEN normalize(num, 2 * den, exp - 1)
    ELSE [num |-> num, den |-> den, exp |-> exp]

\* k more binary digits of the quotient by long division: q is the digits so
\* far, rem < den the remainder
RECURSIVE quotient_bits(_, _, _, _)
quotient_bits(q, rem, den, k) ==
    IF k = 0 THEN [q |-> q, rem |-> rem]
    ELSE IF 2 * rem >= den THEN quotient_bits(2 * q + 1, 2 * rem - den, den, k - 1)
    ELSE quotient_bits(2 * q, 2 * rem, den, k - 1)

\* round to nearest, ties to even: is the last kept digit incremented, when
\* the discarded part is part / whole of one unit in the last place
rounds_up(q, part, whole) == 2 * part > whole \/ (2 * part = whole /\ q % 2 = 1)

\* vote_volume /= n on one cell holding the whole number count: the binary32
\* quotient of count and n, correctly rounded; numpy divides by zero without
\* raising (0 / 0 is nan, count / 0 is inf)
float32_divide(count, n) ==
    IF n = 0 THEN (IF count = 0 THEN float32_nan ELSE float32_inf)
    ELSE IF count = 0 THEN float32_zero
    ELSE LET nz == normalize(count, n, 0)
             qb == quotient_bits(1, nz.num - nz.den, nz.den, 23)
             m == IF rounds_up(qb.q, qb.rem, nz.den) THEN qb.q + 1 ELSE qb.q
         IN  IF m = 2^24 THEN [m |-> 2^23, e |-> nz.exp + 22]
             ELSE [m |-> m, e |-> nz.exp + 23]

\* the Python float of the decimal literal num / den: binary64, correctly
\* rounded
python_float(threshold) ==
    IF threshold.num = 0 THEN float64_zero
    ELSE LET nz == normalize(threshold.num, threshold.den, 0)
             high == quotient_bits(1, nz.num - nz.den, nz.den, 23)
             low == quotient_bits(0, high.rem, nz.den, 29)
             lo == IF rounds_up(low.q, low.rem, nz.den) THEN low.q + 1 ELSE low.q
             hi == IF lo = 2^29 THEN high.q + 1 ELSE high.q
         IN  IF hi = 2^24 THEN [hi |-> 2^23, lo |-> 0, e |-> nz.exp + 22]
             ELSE [hi |-> hi, lo |-> lo % 2^29, e |-> nz.exp + 23]

\* the binary64 scalar converted to the array's dtype for the comparison
astype_float32(x) ==
    IF x.hi = 0 THEN float32_zero
    ELSE LET m == IF rounds_up(x.hi, x.lo, 2^29) THEN x.hi + 1 ELSE x.hi
         IN  IF m = 2^24 THEN [m |-> 2^23, e |-> x.e - 1]
             ELSE [m |-> m, e |-> x.e]

\* a >= b, a > b and a <= b of two binary32 values >= 0; every comparison
\* with nan is False
greater_equal(a, b) ==
    IF a = float32_nan \/ b = float32_nan THEN FALSE
    ELSE IF a = float32_inf \/ b.m = 0 THEN TRUE
    ELSE IF b = float32_inf \/ a.m = 0 THEN FALSE
    ELSE a.e < b.e \/ (a.e = b.e /\ a.m >= b.m)

greater(a, b) == a # b /\ greater_equal(a, b)

less_equal(a, b) == greater_equal(b, a)

\* one cell of  vote_volume >= threshold  after  vote_volume /= n  (n > 0):
\* the binary32 quotient against the threshold as binary32
VoteAtLeast(count, n, threshold) ==
    greater_equal(float32_divide(count, n), astype_float32(python_float(threshold)))

----------------------------------------------------------------------------
(* Values                                                                  *)

Slice(a, b) == [start |-> a, stop |-> b]

EmptyArray == [shape |-> <<0, 0, 0>>, true |-> {}]

NoBBox == <<Slice(0, 0), Slice(0, 0), Slice(0, 0)>>

NoVotes == [n |-> 0, count |-> [v \in {} |-> 0]]

\* the handlers' "return None"
NoneResult ==
    [ok |-> FALSE, raised |-> FALSE, mask |-> EmptyArray, bbox |-> NoBBox,
     votes |-> NoVotes]

\* an exception that leaves the handler: the IndexError of a list index
\* taken outside the handler's try block
Raised == [NoneResult EXCEPT !.raised = TRUE]

\* the handlers' "return mask, bbox"; votes keeps the local vote_volume
\* (count per voxel before the division, and the divisor) for inspection
Some(mask, bbox, votes) ==
    [ok |-> TRUE, raised |-> FALSE, mask |-> mask, bbox |-> bbox, votes |-> votes]

Extent(bbox) == <<bbox[1].stop - bbox[1].start, bbox[2].stop - bbox[2].start,
                  bbox[3].stop - bbox[3].start>>

----------------------------------------------------------------------------
(* get_consensus_mask: fusion of the (mask, bbox) pairs that pylidc gives  *)
(* for the annotations of one nodule (native frame)                        *)

\* mutant: the starts of the first pair instead of the minimum
min_starts_first(masks_and_bboxes) ==
    [i \in 1..3 |-> masks_and_bboxes[1].bbox[i].start]

\* min_starts = np.min(all_starts, axis=0)
min_starts(masks_and_bboxes) ==
    [i \in 1..3 |-> SetMin({masks_and_bboxes[a].bbox[i].start :
                            a \in 1..Len(masks_and_bboxes)})]

\* mutant: the stops of the first pair instead of the maximum
max_ends_first(masks_and_bboxes) ==
    [i \in 1..3 |-> masks_and_bboxes[1].bbox[i].stop]

\* max_ends = np.max(all_ends, axis=0)
max_ends(masks_and_bboxes) ==
    [i \in 1..3 |-> SetMax({masks_and_bboxes[a].bbox[i].stop :
                            a \in 1..Len(masks_and_bboxes)})]

\* combined_shape = tuple(max_ends - min_starts)
combined_shape(masks_and_bboxes) ==
    [i \in 1..3 |-> max_ends(masks_and_bboxes)[i] - min_starts(masks_and_bboxes)[i]]

\* offsets = [bbox[i].start - min_starts[i] for i in range(3)]
offsets(bbox, starts) == [i \in 1..3 |-> bbox[i].start - starts[i]]

\* the three slices  offsets[i] : offsets[i] + mask.shape[i]  of the vote volume
vote_slices(off, mshape, vshape) ==
    [i \in 1..3 |-> PySlice(off[i], off[i] + mshape[i], vshape[i])]

\* numpy accepts  vote_volume[slices] += mask  when the mask broadcasts to
\* the sliced view; otherwise it raises ValueError
PlacementOk(off, mshape, vshape) ==
    LET sl == vote_slices(off, mshape, vshape)
    IN  \A i \in 1..3 : \/ sl[i].stop - sl[i].start = mshape[i]
                        \/ mshape[i] = 1

\* vote_volume[slices] += mask.astype(np.float32): one more vote at every
\* voxel of the sliced view whose mask element is True
add_votes(count, mask, off, vshape) ==
    LET sl == vote_slices(off, mask.shape, vshape)
        src(v) == [i \in 1..3 |-> IF mask.shape[i] = 1 THEN 0 ELSE v[i] - sl[i].start]
        inview(v) == \A i \in 1..3 : sl[i].start <= v[i] /\ v[i] < sl[i].stop
    IN  [v \in DOMAIN count |->
            IF inview(v) /\ <<src(v)[1], src(v)[2], src(v)[3]>> \in mask.true
            THEN count[v] + 1 ELSE count[v]]

\* the loop "for mask, bbox in masks_and_bboxes" over the pairs k..Len:
\* [err, count]; err when a placement raised
RECURSIVE sum_votes(_, _, _, _, _)
sum_votes(masks_and_bboxes, k, count, starts, vshape) ==
    IF k > Len(masks_and_bboxes) THEN [err |-> FALSE, count |-> count]
    ELSE LET mask == masks_and_bboxes[k].mask
             off == offsets(masks_and_bboxes[k].bbox, starts)
         IN  IF ~PlacementOk(off, mask.shape, vshape)
             THEN [err |-> TRUE, count |-> count]
             ELSE sum_votes(masks_and_bboxes, k + 1,
                            add_votes(count, mask, off, vshape), starts, vshape)

\* mutant: ">" instead of ">="
threshold_votes_strict(count, n, threshold, shape) ==
    LET thr == astype_float32(python_float(threshold))
        vote_volume == [c \in {count[v] : v \in DOMAIN count} |-> float32_divide(c, n)]
    IN  [shape |-> shape,
         true |-> {v \in DOMAIN count : greater(vote_volume[count[v]], thr)}]

\* a variant with the comparison turned round: "<=" instead of ">="
threshold_votes_below(count, n, threshold, shape) ==
    LET thr == astype_float32(python_float(threshold))
        vote_volume == [c \in {count[v] : v \in DOMAIN count} |-> float32_divide(c, n)]
    IN  [shape |-> shape,
         true |-> {v \in DOMAIN count : less_equal(vote_volume[count[v]], thr)}]

\* vote_volume /= n; consensus_mask = vote_volume >= threshold: VoteAtLeast
\* at every cell, with the threshold converted once and the quotient worked
\* out once for each count that occurs (vote_volume[c] is the binary32 value
\* of a cell that held c before the division)
threshold_votes(count, n, threshold, shape) ==
    LET thr == astype_float32(python_float(threshold))
        vote_volume == [c \in {count[v] : v \in DOMAIN count} |-> float32_divide(c, n)]
    IN  [shape |-> shape,
         true |-> {v \in DOMAIN count : greater_equal(vote_volume[count[v]], thr)}]

\* the try-block of get_consensus_mask for the cluster's pairs
fuse_consensus(masks_and_bboxes, threshold) ==
    IF Len(masks_and_bboxes) = 0 THEN NoneResult
    ELSE LET starts == min_starts(masks_and_bboxes)
             ends == max_ends(masks_and_bboxes)
             shape == combined_shape(masks_and_bboxes)
             shp == <<shape[1], shape[2], shape[3]>>
             zero == [v \in Indices(shp) |-> 0]
             acc == sum_votes(masks_and_bboxes, 1, zero, starts, shp)
             n == Len(masks_and_bboxes)
         IN  IF \E i \in 1..3 : shape[i] < 0 THEN NoneResult
             ELSE IF acc.err THEN NoneResult
             ELSE Some(threshold_votes(acc.count, n, threshold, shp),
                       <<Slice(starts[1], ends[1]), Slice(starts[2], ends[2]),
                         Slice(starts[3], ends[3])>>,
                       [n |-> n, count |-> acc.count])

----------------------------------------------------------------------------
(* Reconstruction in the frame of a LUNA16 volume (origin, spacing,        *)
(* ct_shape): a contour is [z, pts], image_z_position in mm and the        *)
(* (row, col) points of to_matrix(); an annotation is [contours]           *)

\* round(n / d) of Python and numpy for d > 0: to the nearest integer, a
\* tie to the even neighbour
RoundHalfEven(n, d) ==
    LET q == n \div d
        r == n % d
    IN  IF 2 * r < d THEN q
        ELSE IF 2 * r > d THEN q + 1
        ELSE IF q % 2 = 0 THEN q ELSE q + 1

\* z_idx = int(round((z_mm - origin[0]) / spacing[0]))
z_index(z_mm, origin, spacing) == RoundHalfEven(z_mm - origin[1], spacing[1])

\* a variant of np.rint that rounds a tie up
rint_half_up(n, d) == (2 * n + d) \div (2 * d)

\* np.rint(n / d) for d > 0: the nearest integer, a tie to the even one;
\* from the quotient rounded up at a tie, stepped back when that is odd
np_rint(n, d) ==
    LET up == (2 * n + d) \div (2 * d)
        tie == (2 * n + d) % (2 * d) = 0
    IN  IF tie /\ up % 2 = 1 THEN up - 1 ELSE up

\* LUNA16DataLoader.world_to_voxel: np.rint((world - origin) / spacing)
world_to_voxel(world_coords, origin, spacing) ==
    [i \in 1..3 |-> np_rint(world_coords[i] - origin[i], spacing[i])]

\* a variant that forgets the origin
voxel_to_world_no_origin(voxel_coords, origin, spacing) ==
    [i \in 1..3 |-> spacing[i] * voxel_coords[i]]

\* LUNA16DataLoader.voxel_to_world: spacing * voxel + origin
voxel_to_world(voxel_coords, origin, spacing) ==
    [i \in 1..3 |-> spacing[i] * voxel_coords[i] + origin[i]]

\* coords[:, 0] and coords[:, 1] of contour.to_matrix()
Rows(contour) == [p \in 1..Len(contour.pts) |-> contour.pts[p][1]]

Cols(contour) == [p \in 1..Len(contour.pts) |-> contour.pts[p][2]]

\* skimage's point_in_polygon(xp, yp, x, y): TRUE unless the point is
\* outside (inside, on an edge and on a vertex all count as hits)
point_in_polygon(xp, yp, x, y) ==
    LET n == Len(xp)
        prev(i) == IF i = 1 THEN n ELSE i - 1
        x1(i) == xp[i] - x
        y1(i) == yp[i] - y
        x0(i) == xp[prev(i)] - x
        y0(i) == yp[prev(i)] - y
        num(i) == x1(i) * y0(i) - x0(i) * y1(i)
        den(i) == y0(i) - y1(i)
        cutPos(i) == (num(i) > 0 /\ den(i) > 0) \/ (num(i) < 0 /\ den(i) < 0)
        cutNeg(i) == (num(i) > 0 /\ den(i) < 0) \/ (num(i) < 0 /\ den(i) > 0)
        r_cross == Cardinality({i \in 1..n :
                        ((y1(i) > 0) # (y0(i) > 0)) /\ cutPos(i)})
        l_cross == Cardinality({i \in 1..n :
                        ((y1(i) < 0) # (y0(i) < 0)) /\ cutNeg(i)})
    IN  \/ \E i \in 1..n : x1(i) = 0 /\ y1(i) = 0
        \/ r_cross % 2 # l_cross % 2
        \/ r_cross % 2 = 1

\* rr, cc = skimage.draw.polygon(r, c, shape): the pixels of the polygon
\* with vertex rows r and columns c, kept inside an image of that shape
polygon(r, c, shape) ==
    LET minr == Max2(0, SetMin(Range(r)))
        maxr == Min2(shape[1] - 1, SetMax(Range(r)))
        minc == Max2(0, SetMin(Range(c)))
        maxc == Min2(shape[2] - 1, SetMax(Range(c)))
    IN  {rc \in (minr..maxr) \X (minc..maxc) :
             point_in_polygon(c, r, rc[2], rc[1])}

\* [v - d for v in xs]
Shifted(xs, d) == [p \in 1..Len(xs) |-> xs[p] - d]

\* mutant: "z_idx <= ct_shape[0]", one slice past the volume
valid_contours_inclusive(ann, origin, spacing, ct_shape) ==
    SelectSeq(ann.contours,
              LAMBDA c : 0 <= z_index(c.z, origin, spacing)
                         /\ z_index(c.z, origin, spacing) <= ct_shape[1])

\* mutant: no upper limit on the z index
valid_contours_unbounded(ann, origin, spacing, ct_shape) ==
    SelectSeq(ann.contours, LAMBDA c : 0 <= z_index(c.z, origin, spacing))

\* the contours of an annotation whose z index is a slice of the volume,
\* in order ("if 0 <= z_idx < ct_shape[0]")
valid_contours(ann, origin, spacing, ct_shape) ==
    SelectSeq(ann.contours,
              LAMBDA c : 0 <= z_index(c.z, origin, spacing)
                         /\ z_index(c.z, origin, spacing) < ct_shape[1])

\* every row (axis = 1) or column (axis = 2) of the given contours
AllCoords(contours, axis) ==
    UNION {{contours[k].pts[p][axis] : p \in 1..Len(contours[k].pts)} :
           k \in 1..Len(contours)}

\* the limits of contours in the volume: z_min, z_max from their slice
\* indices; y_min, y_max, x_min, x_max from their points (max + 1), clipped
\* to the volume ("y_min = max(0, y_min); y_max = min(ct_shape[1], y_max)")
contour_limits(contours, origin, spacing, ct_shape) ==
    LET zs == {z_index(contours[k].z, origin, spacing) : k \in 1..Len(contours)}
        ys == AllCoords(contours, 1)
        xs == AllCoords(contours, 2)
    IN  [z_min |-> SetMin(zs), z_max |-> SetMax(zs),
         y_min |-> Max2(0, SetMin(ys)), y_max |-> Min2(ct_shape[2], SetMax(ys) + 1),
         x_min |-> Max2(0, SetMin(xs)), x_max |-> Min2(ct_shape[3], SetMax(xs) + 1)]

\* mutant: the "+ 1" of the z extent forgotten
mask_shape_short(l) == <<l.z_max - l.z_min, l.y_max - l.y_min, l.x_max - l.x_min>>

\* mask_shape = (z_max - z_min + 1, y_max - y_min, x_max - x_min)
mask_shape(l) == <<l.z_max - l.z_min + 1, l.y_max - l.y_min, l.x_max - l.x_min>>

\* bbox = (slice(z_min, z_max + 1), slice(y_min, y_max), slice(x_min, x_max))
limits_bbox(l) ==
    <<Slice(l.z_min, l.z_max + 1), Slice(l.y_min, l.y_max), Slice(l.x_min, l.x_max)>>

\* the loop "for contour ...: mask[z_local, rr, cc] = True" over the
\* contours whose z index lies in z_min..z_max and whose z_local is a slice
\* of the mask: the True voxels of the mask
fill_contours(contours, origin, spacing, l, shape) ==
    LET hit(k) == polygon(Shifted(Rows(contours[k]), l.y_min),
                          Shifted(Cols(contours[k]), l.x_min),
                          <<l.y_max - l.y_min, l.x_max - l.x_min>>)
        z_idx(k) == z_index(contours[k].z, origin, spacing)
        z_local(k) == z_idx(k) - l.z_min
    IN  UNION {{<<z_local(k), rc[1], rc[2]>> : rc \in hit(k)} :
               k \in {j \in 1..Len(contours) :
                        /\ l.z_min <= z_idx(j) /\ z_idx(j) <= l.z_max
                        /\ 0 <= z_local(j) /\ z_local(j) < shape[1]}}

\* what makes the try-block raise once contours are selected: a contour
\* without points (min() of nothing, polygon of nothing)
NoPoints(contours) == \E k \in 1..Len(contours) : Len(contours[k].pts) = 0

\* np.zeros(mask_shape) raises on a negative extent
NegativeShape(shape) == \E i \in 1..3 : shape[i] < 0

\* the try-block of get_aligned_mask for one annotation
aligned_mask(ann, origin, spacing, ct_shape) ==
    IF Len(ann.contours) = 0 THEN NoneResult
    ELSE LET valid == valid_contours(ann, origin, spacing, ct_shape)
         IN  IF Len(valid) = 0 THEN NoneResult
             ELSE IF NoPoints(valid) THEN NoneResult
             ELSE LET l == contour_limits(valid, origin, spacing, ct_shape)
                      shape == mask_shape(l)
                  IN  IF NegativeShape(shape) THEN NoneResult
                      ELSE Some([shape |-> shape,
                                 true |-> fill_contours(valid, origin, spacing, l, shape)],
                                limits_bbox(l), NoVotes)

\* all_contour_data: the contours of every annotation of the cluster whose
\* z index is a slice of the volume
RECURSIVE all_contour_data(_, _, _, _, _)
all_contour_data(cluster, k, origin, spacing, ct_shape) ==
    IF k > Len(cluster) THEN <<>>
    ELSE valid_contours(cluster[k], origin, spacing, ct_shape)
         \o all_contour_data(cluster, k + 1, origin, spacing, ct_shape)

\* mutant: one vote per contour instead of one per annotation
add_ann_votes_per_contour(count, ann, origin, spacing, l, shape) ==
    [v \in DOMAIN count |->
        count[v] + Cardinality({k \in 1..Len(ann.contours) :
                        v \in fill_contours(<<ann.contours[k]>>, origin, spacing, l, shape)})]

\* "ann_mask[z_local, rr, cc] = True" for the contours of one annotation,
\* then "vote_volume += ann_mask.astype(np.float32)"
add_ann_votes(count, ann, origin, spacing, l, shape) ==
    LET ann_mask == fill_contours(ann.contours, origin, spacing, l, shape)
    IN  [v \in DOMAIN count |-> IF v \in ann_mask THEN count[v] + 1 ELSE count[v]]

\* the loop "for ann in cluster" over the annotations k..Len
RECURSIVE cluster_votes(_, _, _, _, _, _, _)
cluster_votes(cluster, k, count, origin, spacing, l, shape) ==
    IF k > Len(cluster) THEN count
    ELSE cluster_votes(cluster, k + 1,
                       add_ann_votes(count, cluster[k], origin, spacing, l, shape),
                       origin, spacing, l, shape)

\* a variant that leaves the annotation itself out of the divisor
vote_divisor_others(cluster) == Len(cluster) - 1

\* "vote_volume /= len(cluster)": the divisor
vote_divisor(cluster) == Len(cluster)

\* a variant that divides the votes by the number of annotations with a
\* contour in the slice range
aligned_consensus_of_contributors(cluster, origin, spacing, ct_shape, threshold) ==
    LET data == all_contour_data(cluster, 1, origin, spacing, ct_shape)
    IN  IF Len(data) = 0 THEN NoneResult
        ELSE IF NoPoints(data) THEN NoneResult
        ELSE LET l == contour_limits(data, origin, spacing, ct_shape)
                 shape == mask_shape(l)
                 zero == [v \in Indices(shape) |-> 0]
                 count == cluster_votes(cluster, 1, zero, origin, spacing, l, shape)
                 n == Cardinality({a \in 1..Len(cluster) :
                         Len(valid_contours(cluster[a], origin, spacing, ct_shape)) > 0})
             IN  IF NegativeShape(shape) THEN NoneResult
                 ELSE Some(threshold_votes(count, n, threshold, shape),
                           limits_bbox(l), [n |-> n, count |-> count])

\* the try-block of get_aligned_consensus_mask for the nodule's cluster
aligned_consensus(cluster, origin, spacing, ct_shape, threshold) ==
    LET data == all_contour_data(cluster, 1, origin, spacing, ct_shape)
    IN  IF Len(data) = 0 THEN NoneResult
        ELSE IF NoPoints(data) THEN NoneResult
        ELSE LET l == contour_limits(data, origin, spacing, ct_shape)
                 shape == mask_shape(l)
                 zero == [v \in Indices(shape) |-> 0]
                 count == cluster_votes(cluster, 1, zero, origin, spacing, l, shape)
                 n == vote_divisor(cluster)
             IN  IF NegativeShape(shape) THEN NoneResult
                 ELSE Some(threshold_votes(count, n, threshold, shape),
                           limits_bbox(l), [n |-> n, count |-> count])

\* get_aligned_mask_for_cluster(cluster, origin, spacing, ct_shape, threshold)
get_aligned_mask_for_cluster(cluster, origin, spacing, ct_shape, threshold) ==
    IF Len(cluster) = 0 THEN NoneResult
    ELSE LET data == all_contour_data(cluster, 1, origin, spacing, ct_shape)
         IN  IF Len(data) = 0 THEN NoneResult
             ELSE IF NoPoints(data) THEN NoneResult
             ELSE LET l == contour_limits(data, origin, spacing, ct_shape)
                      shape == mask_shape(l)
                      zero == [v \in Indices(shape) |-> 0]
                      count == cluster_votes(cluster, 1, zero, origin, spacing, l, shape)
                      n == vote_divisor(cluster)
                  IN  IF NegativeShape(shape) THEN NoneResult
                      ELSE Some(threshold_votes(count, n, threshold, shape),
                                limits_bbox(l), [n |-> n, count |-> count])

----------------------------------------------------------------------------
(* Memory: the arrays the handlers read, allocate and assign to.  An array *)
(* object is named by a triple.  A reference [base, axis] is the object    *)
(* itself (axis 0) or the view coords[:, axis - 1] of it: numpy's basic    *)
(* indexing gives a view, and an assignment through a view lands in the    *)
(* object viewed.  The arrays that boolean_mask(), bbox() and to_matrix()  *)
(* hand out are taken to be the annotation's own: the handlers do not copy *)
(* them before use.                                                        *)

MaskObject(a) == <<"mask", a, 0>>

BBoxObject(a) == <<"bbox", a, 0>>

PointsObject(a, k) == <<"points", a, k>>

OriginObject == <<"origin", 0, 0>>

SpacingObject == <<"spacing", 0, 0>>

CtShapeObject == <<"ct_shape", 0, 0>>

\* the n-th array the handler allocates
NewObject(n) == <<"new", n, 0>>

\* no array: the handler returned None or raised
NoObject == <<"None", 0, 0>>

\* the arrays that exist when a handler is called
InputObjects(annotations) ==
    {OriginObject, SpacingObject, CtShapeObject}
    \cup {MaskObject(a) : a \in 1..Len(annotations)}
    \cup {BBoxObject(a) : a \in 1..Len(annotations)}
    \cup UNION {{PointsObject(a, k) : k \in 1..Len(annotations[a].contours)} :
                a \in 1..Len(annotations)}

InputContent(annotations, fr, o) ==
    IF o[1] = "mask" THEN annotations[o[2]].mask
    ELSE IF o[1] = "bbox" THEN annotations[o[2]].bbox
    ELSE IF o[1] = "points" THEN annotations[o[2]].contours[o[3]].pts
    ELSE IF o = OriginObject THEN fr.origin
    ELSE IF o = SpacingObject THEN fr.spacing
    ELSE fr.ct_shape

\* memory at the call: heap holds the content of every array that exists
\* then, new the content of the arrays allocated since, in order
Memory(annotations, fr) ==
    [heap |-> [o \in InputObjects(annotations) |-> InputContent(annotations, fr, o)],
     new |-> <<>>]

\* the content of an array object
Content(mem, o) == IF o[1] = "new" THEN mem.new[o[2]] ELSE mem.heap[o]

Ref(o) == [base |-> o, axis |-> 0]

\* coords[:, axis - 1]: a view of one column of the array
getitem_column(ref, axis) == [base |-> ref.base, axis |-> axis]

Column(pts, axis) == [p \in 1..Len(pts) |-> pts[p][axis]]

\* the value read through a reference
load(mem, ref) ==
    IF ref.axis = 0 THEN Content(mem, ref.base)
    ELSE Column(Content(mem, ref.base), ref.axis)

\* an assignment through a reference (x[...] = v, x += v, x -= v, x /= v):
\* the object referred to, or the column viewed, holds content afterwards
store(mem, ref, content) ==
    LET old == Content(mem, ref.base)
        new == IF ref.axis = 0 THEN content
               ELSE [p \in 1..Len(old) |->
                        IF ref.axis = 1 THEN <<content[p], old[p][2]>>
                        ELSE <<old[p][1], content[p]>>]
    IN  IF ref.base[1] = "new" THEN [mem EXCEPT !.new[ref.base[2]] = new]
        ELSE [mem EXCEPT !.heap[ref.base] = new]

\* a new array holding content: np.zeros, and the result of astype, of
\* arithmetic, of a comparison and of np.concatenate
allocate(mem, content) ==
    [mem |-> [mem EXCEPT !.new = Append(@, content)],
     ref |-> Ref(NewObject(Len(mem.new) + 1))]

\* np.zeros(shape, dtype=bool) and np.zeros(shape, dtype=np.float32); the
\* float array is kept as votes counted and the divisor applied to them
ZeroMask(shape) == [shape |-> shape, true |-> {}]

ZeroVotes(shape) == [shape |-> shape, count |-> [v \in Indices(shape) |-> 0], n |-> 1]

\* x.astype(np.float32): a copy (copy=True is the default)
astype(mem, ref) == allocate(mem, load(mem, ref))

\* a variant that subtracts in place: "coords[:, 0] -= y_min"
subtract_in_place(mem, ref, d) ==
    [mem |-> store(mem, ref, Shifted(load(mem, ref), d)), ref |-> ref]

\* "coords[:, 0] - y_min": the difference is a new array
subtract(mem, ref, d) == allocate(mem, Shifted(load(mem, ref), d))

\* mask = ann.boolean_mask(); bbox = ann.bbox(); coords = contour.to_matrix()
boolean_mask(a) == Ref(MaskObject(a))

bbox_of(a) == Ref(BBoxObject(a))

to_matrix(a, k) == Ref(PointsObject(a, k))

\* annotation a as a handler reads it: the positions of its contours from
\* the record, its arrays from memory
annotation_in_memory(mem, ann, a) ==
    [contours |-> [k \in 1..Len(ann.contours) |->
                      [z |-> ann.contours[k].z, pts |-> load(mem, to_matrix(a, k))]],
     mask |-> load(mem, boolean_mask(a)),
     bbox |-> load(mem, bbox_of(a))]

annotations_in_memory(mem, annotations) ==
    [a \in 1..Len(annotations) |-> annotation_in_memory(mem, annotations[a], a)]

frame_in_memory(mem) ==
    [origin |-> load(mem, Ref(OriginObject)), spacing |-> load(mem, Ref(SpacingObject)),
     ct_shape |-> load(mem, Ref(CtShapeObject))]

\* what a handler leaves: the memory, and the array it returned
Left(mem, returned) == [mem |-> mem, returned |-> returned]

\* one statement after another: Rest(left), with what the statement before
\* left evaluated once
Then(left, Rest(_)) == CHOOSE after \in {Rest(before) : before \in {left}} : TRUE

\* the loop "for mask, bbox in masks_and_bboxes" of get_consensus_mask from
\* pair k on: "vote_volume[slices] += mask.astype(np.float32)" assigns
\* through a view of vote_volume
RECURSIVE sum_votes_in_memory(_, _, _, _, _, _)
sum_votes_in_memory(mem, n, k, vote_volume, starts, vshape) ==
    IF k > n THEN [err |-> FALSE, mem |-> mem]
    ELSE Then(astype(mem, boolean_mask(k)), LAMBDA float_mask :
         LET off == offsets(load(mem, bbox_of(k)), starts)
             mask == load(float_mask.mem, float_mask.ref)
             votes == load(float_mask.mem, vote_volume)
         IN  IF ~PlacementOk(off, mask.shape, vshape)
             THEN [err |-> TRUE, mem |-> float_mask.mem]
             ELSE Then(store(float_mask.mem, vote_volume,
                             [votes EXCEPT !.count = add_votes(@, mask, off, vshape)]),
                       LAMBDA summed :
                  sum_votes_in_memory(summed, n, k + 1, vote_volume, starts, vshape)))

\* the try-block of get_consensus_mask on the arrays of annotations 1..n
fuse_consensus_in_memory(mem, n, threshold) ==
    IF n = 0 THEN Left(mem, NoObject)
    ELSE LET pairs == [a \in 1..n |-> [mask |-> load(mem, boolean_mask(a)),
                                       bbox |-> load(mem, bbox_of(a))]]
         IN  Then(min_starts(pairs), LAMBDA starts :
             Then(combined_shape(pairs), LAMBDA shape :
             LET shp == <<shape[1], shape[2], shape[3]>>
             IN  IF NegativeShape(shp) THEN Left(mem, NoObject)
                 ELSE Then(allocate(mem, ZeroVotes(shp)), LAMBDA vote_volume :
                      Then(sum_votes_in_memory(vote_volume.mem, n, 1, vote_volume.ref,
                                               starts, shp), LAMBDA acc :
                      IF acc.err THEN Left(acc.mem, NoObject)
                      ELSE Then(store(acc.mem, vote_volume.ref,
                                      [load(acc.mem, vote_volume.ref) EXCEPT !.n = n]),
                                LAMBDA divided :
                           Then(allocate(divided,
                                    threshold_votes(load(divided, vote_volume.ref).count,
                                                    n, threshold, shp)),
                                LAMBDA consensus_mask :
                           Left(consensus_mask.mem, consensus_mask.ref.base)))))))

\* the contours of ann, by position, whose slice index is in lo..hi
contours_between(ann, lo, hi, origin, spacing) ==
    SelectSeq([k \in 1..Len(ann.contours) |-> k],
              LAMBDA k : /\ lo <= z_index(ann.contours[k].z, origin, spacing)
                         /\ z_index(ann.contours[k].z, origin, spacing) <= hi)

\* the loop "coords = contour.to_matrix(); rr, cc = polygon(coords[:, 0] -
\* y_min, coords[:, 1] - x_min, shape); mask[z_local, rr, cc] = True" over
\* the contours ks[i..] of annotation a, filling the array target
RECURSIVE fill_contours_in_memory(_, _, _, _, _, _, _, _)
fill_contours_in_memory(mem, ann, a, ks, i, target, l, shape) ==
    IF i > Len(ks) THEN mem
    ELSE LET coords == to_matrix(a, ks[i])
         IN  Then(subtract(mem, getitem_column(coords, 1), l.y_min), LAMBDA r :
             Then(subtract(r.mem, getitem_column(coords, 2), l.x_min), LAMBDA c :
             LET hit == polygon(load(c.mem, r.ref), load(c.mem, c.ref),
                                <<l.y_max - l.y_min, l.x_max - l.x_min>>)
                 z_local == z_index(ann.contours[ks[i]].z,
                                    load(c.mem, Ref(OriginObject)),
                                    load(c.mem, Ref(SpacingObject))) - l.z_min
                 old == load(c.mem, target)
             IN  Then(IF 0 <= z_local /\ z_local < shape[1]
                      THEN store(c.mem, target,
                                 [old EXCEPT !.true = @ \cup {<<z_local, rc[1], rc[2]>> :
                                                               rc \in hit}])
                      ELSE c.mem,
                      LAMBDA filled :
                 fill_contours_in_memory(filled, ann, a, ks, i + 1, target, l, shape))))

\* the try-block of get_aligned_mask on the arrays of annotation a
aligned_mask_in_memory(mem, ann, a) ==
    LET fr == frame_in_memory(mem)
    IN  Then(valid_contours(annotation_in_memory(mem, ann, a),
                            fr.origin, fr.spacing, fr.ct_shape), LAMBDA valid :
        IF Len(valid) = 0 \/ NoPoints(valid) THEN Left(mem, NoObject)
        ELSE Then(contour_limits(valid, fr.origin, fr.spacing, fr.ct_shape), LAMBDA l :
             Then(mask_shape(l), LAMBDA shape :
             Then(contours_between(ann, 0, fr.ct_shape[1] - 1, fr.origin, fr.spacing),
                  LAMBDA ks :
             IF NegativeShape(shape) THEN Left(mem, NoObject)
             ELSE Then(allocate(mem, ZeroMask(shape)), LAMBDA mask :
                  Then(fill_contours_in_memory(mask.mem, ann, a, ks, 1, mask.ref,
                                               l, shape), LAMBDA filled :
                  Left(filled, mask.ref.base)))))))

\* the loop "for ann in cluster" of the two consensus reconstructions from
\* annotation a on: ann_mask = np.zeros(...), filled from the contours of
\* the slices z_min..z_max, then "vote_volume += ann_mask.astype(np.float32)"
RECURSIVE cluster_votes_in_memory(_, _, _, _, _, _)
cluster_votes_in_memory(mem, cluster, a, vote_volume, l, shape) ==
    IF a > Len(cluster) THEN mem
    ELSE LET fr == frame_in_memory(mem)
         IN  Then(contours_between(cluster[a], l.z_min, l.z_max, fr.origin, fr.spacing),
                  LAMBDA ks :
             Then(allocate(mem, ZeroMask(shape)), LAMBDA ann_mask :
             Then(fill_contours_in_memory(ann_mask.mem, cluster[a], a, ks, 1,
                                          ann_mask.ref, l, shape), LAMBDA filled :
             Then(astype(filled, ann_mask.ref), LAMBDA float_mask :
             Then(load(float_mask.mem, float_mask.ref).true, LAMBDA marked :
             Then(store(float_mask.mem, vote_volume,
                        [load(float_mask.mem, vote_volume) EXCEPT !.count =
                            [v \in DOMAIN @ |-> IF v \in marked THEN @[v] + 1 ELSE @[v]]]),
                  LAMBDA summed :
             cluster_votes_in_memory(summed, cluster, a + 1, vote_volume, l, shape)))))))

\* the try-block of get_aligned_consensus_mask, and of
\* get_aligned_mask_for_cluster after its test for an empty cluster, on the
\* arrays of the annotations of the cluster
aligned_consensus_in_memory(mem, cluster, threshold) ==
    LET fr == frame_in_memory(mem)
        n == vote_divisor(cluster)
    IN  Then(all_contour_data(annotations_in_memory(mem, cluster), 1,
                              fr.origin, fr.spacing, fr.ct_shape), LAMBDA data :
        IF Len(data) = 0 THEN Left(mem, NoObject)
        ELSE IF NoPoints(data) THEN Left(mem, NoObject)
        ELSE Then(allocate(mem, AllCoords(data, 1)), LAMBDA all_y :
             Then(allocate(all_y.mem, AllCoords(data, 2)), LAMBDA all_x :
             Then(contour_limits(data, fr.origin, fr.spacing, fr.ct_shape), LAMBDA l :
             Then(mask_shape(l), LAMBDA shape :
             IF NegativeShape(shape) THEN Left(all_x.mem, NoObject)
             ELSE Then(allocate(all_x.mem, ZeroVotes(shape)), LAMBDA vote_volume :
                  Then(cluster_votes_in_memory(vote_volume.mem, cluster, 1,
                                               vote_volume.ref, l, shape),
                       LAMBDA counted :
                  Then(store(counted, vote_volume.ref,
                             [load(counted, vote_volume.ref) EXCEPT !.n = n]),
                       LAMBDA divided :
                  Then(allocate(divided,
                           threshold_votes(load(divided, vote_volume.ref).count,
                                           n, threshold, shape)),
                       LAMBDA consensus_mask :
                  Left(consensus_mask.mem, consensus_mask.ref.base))))))))))

----------------------------------------------------------------------------
(* Inputs: annotations of the store, LUNA16 frames, thresholds             *)

Square(r0, c0, r1, c1) == <<<<r0, c0>>, <<r0, c1>>, <<r1, c1>>, <<r1, c0>>>>

Contour(z, pts) == [z |-> z, pts |-> pts]

\* an annotation of the store: its contours, and the pair that pylidc's
\* boolean_mask() and bbox() give for it
Annotation(contours, shape, true, bbox) ==
    [contours |-> contours, mask |-> [shape |-> shape, true |-> true], bbox |-> bbox]

AnnotationPool ==
    { Annotation(<<Contour(0, Square(0, 0, 1, 1)), Contour(1, Square(0, 0, 1, 1))>>,
                 <<2, 2, 2>>, Indices(<<2, 2, 2>>),
                 <<Slice(0, 2), Slice(0, 2), Slice(0, 2)>>),
      Annotation(<<Contour(1, Square(0, 1, 1, 2)), Contour(1, Square(1, 1, 2, 3)),
                   Contour(2, <<<<1, 1>>, <<1, 3>>, <<3, 1>>>>)>>,
                 <<3, 2, 2>>, {<<0, 0, 0>>, <<1, 0, 0>>, <<1, 1, 0>>, <<2, 1, 1>>},
                 <<Slice(0, 3), Slice(1, 3), Slice(1, 3)>>),
      Annotation(<<>>,
                 <<1, 1, 1>>, {},
                 <<Slice(2, 3), Slice(0, 1), Slice(0, 1)>>),
      Annotation(<<Contour(5, Square(3, 3, 4, 4))>>,
                 <<2, 1, 1>>, {<<0, 0, 0>>, <<1, 0, 0>>},
                 <<Slice(2, 4), Slice(2, 3), Slice(2, 3)>>) }

\* the annotation lists a scan of the store may hold
Clusters == SeqsUpTo(AnnotationPool, MaxCluster)

Frame(oz, sz, ct_shape) ==
    [origin |-> <<oz, 0, 0>>, spacing |-> <<sz, 1, 1>>, ct_shape |-> ct_shape]

Frames ==
    { Frame(0, 1, <<3, 4, 4>>), Frame(1, 1, <<3, 4, 4>>), Frame(0, 2, <<3, 4, 4>>),
      Frame(1, 2, <<3, 3, 3>>), Frame(0, 1, <<2, 2, 3>>), Frame(1, 2, <<3, 2, 4>>) }

\* the threshold argument, written as the decimal num / den (den > 0)
Threshold(num, den) == [num |-> num, den |-> den]

\* in (0, 1]: 1e-6, 0.3, 0.33333334, 0.5, 0.66666667, 1.0; outside: 0 and 1.5
Thresholds ==
    { Threshold(1, 1000000), Threshold(3, 10), Threshold(33333334, 100000000),
      Threshold(1, 2), Threshold(66666667, 100000000), Threshold(1, 1),
      Threshold(0, 1), Threshold(3, 2) }

ValidThreshold(t) == t.num > 0 /\ t.num <= t.den

----------------------------------------------------------------------------
(* The loader and its store                                                *)

\* SeriesInstanceUIDs, as tuples of characters
Uids == { <<"a", "1">>, <<"A", "1">>, <<"b", "1">> }

\* the uid the mask operations are called with
SeriesUid == <<"a", "1">>

VARIABLES
    scan,          \* the store's only record: [exists, series_instance_uid, annotations]
    frame,         \* origin, spacing and ct_shape of the loaded LUNA16 volume
    scan_cache,    \* self._scan_cache: a dict from uid to scan record
    store_queries, \* per uid, the number of pl.query(Scan) lookups made for it
    lookup,        \* the last get_scan_by_seriesuid call: [uid, scan]
    result,        \* the last mask call: [op, idx, threshold, ret, returned]
    conversion,    \* the last coordinate conversion: [op, world, voxel, back]
    batch,         \* the last map_luna16_to_lidc call: [op, seriesuids, mapping]
    calls          \* per thread, its get_scan_by_seriesuid call: [pc, uid, scan]

vars == <<scan, frame, scan_cache, store_queries, lookup, result, conversion,
          batch, calls>>

NoScan ==
    [exists |-> FALSE, series_instance_uid |-> <<>>, patient_id |-> "",
     annotations |-> <<>>]

StoredScan(uid, annotations) ==
    [exists |-> TRUE, series_instance_uid |-> uid, patient_id |-> "LIDC-IDRI-0001",
     annotations |-> annotations]

NoThreshold == Threshold(0, 0)

NoCall ==
    [op |-> "none", idx |-> 0, threshold |-> NoThreshold, ret |-> NoneResult,
     returned |-> NoObject]

\* a call, what it returned, and the array object that the returned mask is
Call(op, idx, threshold, ret, returned) ==
    [op |-> op, idx |-> idx, threshold |-> threshold, ret |-> ret,
     returned |-> returned]

NoLookup == [uid |-> <<>>, scan |-> NoScan]

NoConversion ==
    [op |-> "none", world |-> <<0, 0, 0>>, voxel |-> <<0, 0, 0>>, back |-> <<0, 0, 0>>]

EmptyCache == [u \in {} |-> NoScan]

NoMapping == [u \in {} |-> "None"]

NoBatch == [op |-> "none", seriesuids |-> <<>>, mapping |-> NoMapping]

Threads == 1..MaxThreads

NoCalls == [t \in Threads |-> [pc |-> "idle", uid |-> <<>>, scan |-> NoScan]]

\* scan.cluster_annotations(): the annotations of the scan form one nodule
nodule_clusters(s) == IF Len(s.annotations) = 0 THEN <<>> ELSE <<s.annotations>>

\* pl.query(Scan).filter(Scan.series_instance_uid == seriesuid).first()
query_scan(s, seriesuid) ==
    IF s.exists /\ s.series_instance_uid = seriesuid THEN s ELSE NoScan

\* a variant that files every scan found under the uid of the mask calls
scan_cache_after_one_key(cache, seriesuid, found) ==
    IF found.exists
    THEN [u \in DOMAIN cache \cup {SeriesUid} |->
             IF u = SeriesUid THEN found ELSE cache[u]]
    ELSE cache

\* "if scan: self._scan_cache[seriesuid] = scan"
scan_cache_after(cache, seriesuid, found) ==
    IF found.exists
    THEN [u \in DOMAIN cache \cup {seriesuid} |->
             IF u = seriesuid THEN found ELSE cache[u]]
    ELSE cache

\* get_scan_by_seriesuid(seriesuid): the scan returned, the cache it leaves
\* and whether the store was queried
get_scan_by_seriesuid(cache, s, seriesuid) ==
    IF seriesuid \in DOMAIN cache
    THEN [scan |-> cache[seriesuid], cache |-> cache, queried |-> FALSE]
    ELSE LET found == query_scan(s, seriesuid)
         IN  [scan |-> found, cache |-> scan_cache_after(cache, seriesuid, found),
              queried |-> TRUE]

queries_after(queries, seriesuid, got) ==
    IF got.queried THEN [queries EXCEPT ![seriesuid] = @ + 1] ELSE queries

Init ==
    /\ \/ scan = NoScan /\ frame \in Frames
       \/ /\ scan \in {StoredScan(SeriesUid, c) : c \in Clusters}
          /\ frame \in Frames
    /\ scan_cache = EmptyCache
    /\ store_queries = [u \in Uids |-> 0]
    /\ lookup = NoLookup
    /\ result = NoCall
    /\ conversion = NoConversion
    /\ batch = NoBatch
    /\ calls = NoCalls

\* "for ann in cluster: masks_and_bboxes.append((ann.boolean_mask(), ann.bbox()))"
collect_masks_and_bboxes(cluster) ==
    [a \in 1..Len(cluster) |-> [mask |-> cluster[a].mask, bbox |-> cluster[a].bbox]]

\* get_annotation_mask(seriesuid, annotation_idx)
get_annotation_mask(s, annotation_idx) ==
    IF ~s.exists THEN NoneResult
    ELSE IF annotation_idx >= Len(s.annotations) THEN NoneResult
    ELSE IF ~PyIndexOk(s.annotations, annotation_idx) THEN Raised
    ELSE LET ann == PyIndex(s.annotations, annotation_idx)
         IN  Some(ann.mask, ann.bbox, NoVotes)

\* get_consensus_mask(seriesuid, nodule_idx, threshold)
get_consensus_mask(s, nodule_idx, threshold) ==
    IF ~s.exists THEN NoneResult
    ELSE IF nodule_idx >= Len(nodule_clusters(s)) THEN NoneResult
    ELSE IF ~PyIndexOk(nodule_clusters(s), nodule_idx) THEN Raised
    ELSE fuse_consensus(collect_masks_and_bboxes(PyIndex(nodule_clusters(s), nodule_idx)),
                        threshold)

\* get_aligned_mask(seriesuid, annotation_idx, origin, spacing, ct_shape)
get_aligned_mask(s, annotation_idx, origin, spacing, ct_shape) ==
    IF ~s.exists THEN NoneResult
    ELSE IF annotation_idx >= Len(s.annotations) THEN NoneResult
    ELSE IF ~PyIndexOk(s.annotations, annotation_idx) THEN Raised
    ELSE aligned_mask(PyIndex(s.annotations, annotation_idx), origin, spacing, ct_shape)

\* get_aligned_consensus_mask(seriesuid, nodule_idx, origin, spacing,
\*                            ct_shape, threshold)
get_aligned_consensus_mask(s, nodule_idx, origin, spacing, ct_shape, threshold) ==
    IF ~s.exists THEN NoneResult
    ELSE IF nodule_idx >= Len(nodule_clusters(s)) THEN NoneResult
    ELSE IF ~PyIndexOk(nodule_clusters(s), nodule_idx) THEN Raised
    ELSE aligned_consensus(PyIndex(nodule_clusters(s), nodule_idx),
                           origin, spacing, ct_shape, threshold)

\* the 1-based position that the index idx selects in xs
PyPosition(xs, idx) == IF idx >= 0 THEN idx + 1 ELSE Len(xs) + idx + 1

\* the handlers on the arrays in memory: what each leaves there and the
\* array it returns.  The annotations of the nodule are those of the scan,
\* in order (nodule_clusters)
get_annotation_mask_in_memory(mem, s, annotation_idx) ==
    IF \/ ~s.exists
       \/ annotation_idx >= Len(s.annotations)
       \/ ~PyIndexOk(s.annotations, annotation_idx)
    THEN Left(mem, NoObject)
    ELSE Left(mem, boolean_mask(PyPosition(s.annotations, annotation_idx)).base)

get_consensus_mask_in_memory(mem, s, nodule_idx, threshold) ==
    IF \/ ~s.exists
       \/ nodule_idx >= Len(nodule_clusters(s))
       \/ ~PyIndexOk(nodule_clusters(s), nodule_idx)
    THEN Left(mem, NoObject)
    ELSE fuse_consensus_in_memory(mem, Len(PyIndex(nodule_clusters(s), nodule_idx)),
                                  threshold)

get_aligned_mask_in_memory(mem, s, annotation_idx) ==
    IF \/ ~s.exists
       \/ annotation_idx >= Len(s.annotations)
       \/ ~PyIndexOk(s.annotations, annotation_idx)
    THEN Left(mem, NoObject)
    ELSE aligned_mask_in_memory(mem, PyIndex(s.annotations, annotation_idx),
                                PyPosition(s.annotations, annotation_idx))

get_aligned_consensus_mask_in_memory(mem, s, nodule_idx, threshold) ==
    IF \/ ~s.exists
       \/ nodule_idx >= Len(nodule_clusters(s))
       \/ ~PyIndexOk(nodule_clusters(s), nodule_idx)
    THEN Left(mem, NoObject)
    ELSE aligned_consensus_in_memory(mem, PyIndex(nodule_clusters(s), nodule_idx),
                                     threshold)

get_aligned_mask_for_cluster_in_memory(mem, cluster, threshold) ==
    IF Len(cluster) = 0 THEN Left(mem, NoObject)
    ELSE aligned_consensus_in_memory(mem, cluster, threshold)

\* the store's record and the frame once a handler has returned: the
\* content of their arrays in the memory it left
Returned(left) ==
    /\ scan' = [scan EXCEPT !.annotations = annotations_in_memory(left.mem, @)]
    /\ frame' = frame_in_memory(left.mem)

\* what the handler's call of get_scan_by_seriesuid leaves behind
Fetched(seriesuid, got) ==
    /\ scan_cache' = got.cache
    /\ store_queries' = queries_after(store_queries, seriesuid, got)
    /\ lookup' = [uid |-> seriesuid, scan |-> got.scan]

GetScanBySeriesuid ==
    \E seriesuid \in Uids :
        LET got == get_scan_by_seriesuid(scan_cache, scan, seriesuid)
        IN  /\ got.queried => store_queries[seriesuid] < MaxQueries
            /\ Fetched(seriesuid, got)
            /\ UNCHANGED <<scan, frame, result, conversion, batch, calls>>

GetAnnotationMask ==
    \E annotation_idx \in -1..Len(scan.annotations) :
        LET got == get_scan_by_seriesuid(scan_cache, scan, SeriesUid)
        IN  /\ result.op = "none"
            /\ \E left \in {get_annotation_mask_in_memory(
                               Memory(scan.annotations, frame), got.scan,
                               annotation_idx)} :
                  /\ result' = Call("get_annotation_mask", annotation_idx, NoThreshold,
                                    get_annotation_mask(got.scan, annotation_idx),
                                    left.returned)
                  /\ Returned(left)
            /\ Fetched(SeriesUid, got)
            /\ UNCHANGED <<conversion, batch, calls>>

GetConsensusMask ==
    \E nodule_idx \in -1..1, threshold \in Thresholds :
        LET got == get_scan_by_seriesuid(scan_cache, scan, SeriesUid)
        IN  /\ result.op = "none"
            /\ \E left \in {get_consensus_mask_in_memory(
                               Memory(scan.annotations, frame), got.scan,
                               nodule_idx, threshold)} :
                  /\ result' = Call("get_consensus_mask", nodule_idx, threshold,
                                    get_consensus_mask(got.scan, nodule_idx, threshold),
                                    left.returned)
                  /\ Returned(left)
            /\ Fetched(SeriesUid, got)
            /\ UNCHANGED <<conversion, batch, calls>>

GetAlignedMask ==
    \E annotation_idx \in -1..Len(scan.annotations) :
        LET got == get_scan_by_seriesuid(scan_cache, scan, SeriesUid)
        IN  /\ result.op = "none"
            /\ \E left \in {get_aligned_mask_in_memory(
                               Memory(scan.annotations, frame), got.scan,
                               annotation_idx)} :
                  /\ result' = Call("get_aligned_mask", annotation_idx, NoThreshold,
                                    get_aligned_mask(got.scan, annotation_idx,
                                        frame.origin, frame.spacing, frame.ct_shape),
                                    left.returned)
                  /\ Returned(left)
            /\ Fetched(SeriesUid, got)
            /\ UNCHANGED <<conversion, batch, calls>>

GetAlignedConsensusMask ==
    \E nodule_idx \in -1..1, threshold \in Thresholds :
        LET got == get_scan_by_seriesuid(scan_cache, scan, SeriesUid)
        IN  /\ result.op = "none"
            /\ \E left \in {get_aligned_consensus_mask_in_memory(
                               Memory(scan.annotations, frame), got.scan,
                               nodule_idx, threshold)} :
                  /\ result' = Call("get_aligned_consensus_mask", nodule_idx, threshold,
                                    get_aligned_consensus_mask(got.scan, nodule_idx,
                                        frame.origin, frame.spacing, frame.ct_shape,
                                        threshold),
                                    left.returned)
                  /\ Returned(left)
            /\ Fetched(SeriesUid, got)
            /\ UNCHANGED <<conversion, batch, calls>>

\* the caller passes the annotations of the scan as the cluster (an empty
\* list when it has none); the call does not touch the store
GetAlignedMaskForCluster ==
    \E threshold \in Thresholds :
        /\ result.op = "none"
        /\ \E left \in {get_aligned_mask_for_cluster_in_memory(
                           Memory(scan.annotations, frame), scan.annotations,
                           threshold)} :
              /\ result' = Call("get_aligned_mask_for_cluster", 0, threshold,
                                get_aligned_mask_for_cluster(scan.annotations,
                                    frame.origin, frame.spacing, frame.ct_shape,
                                    threshold),
                                left.returned)
              /\ Returned(left)
        /\ UNCHANGED <<scan_cache, store_queries, lookup, conversion, batch, calls>>

Next ==
    \/ GetAnnotationMask
    \/ GetConsensusMask
    \/ GetAlignedMask
    \/ GetAlignedConsensusMask
    \/ GetAlignedMaskForCluster

Spec == Init /\ [][Next]_vars

\* the scan cache alone: the store holds one scan under any of the uids, or
\* none, and the scan is looked up by any of the uids, any number of times
InitCache ==
    /\ scan \in {NoScan} \cup
                {StoredScan(u, c) : u \in Uids, c \in SeqsUpTo(AnnotationPool, 1)}
    /\ frame = Frame(0, 1, <<3, 4, 4>>)
    /\ scan_cache = EmptyCache
    /\ store_queries = [u \in Uids |-> 0]
    /\ lookup = NoLookup
    /\ result = NoCall
    /\ conversion = NoConversion
    /\ batch = NoBatch
    /\ calls = NoCalls

NextCache == GetScanBySeriesuid

SpecCache == InitCache /\ [][NextCache]_vars

\* a variant that records the scans found and skips the others
mapping_after_found_only(mapping, uid, found) ==
    IF found.exists
    THEN [u \in DOMAIN mapping \cup {uid} |->
             IF u = uid THEN found.patient_id ELSE mapping[u]]
    ELSE mapping

\* "mapping[uid] = scan.patient_id" when the scan was found, and
\* "mapping[uid] = None" when it was not
mapping_after(mapping, uid, found) ==
    [u \in DOMAIN mapping \cup {uid} |->
        IF u = uid THEN (IF found.exists THEN found.patient_id ELSE "None")
        ELSE mapping[u]]

RECURSIVE map_uids(_, _, _, _)
\* "for uid in seriesuids" from position k on; st is the loader's cache,
\* query counts and last lookup, and the mapping built so far
map_uids(seriesuids, k, s, st) ==
    IF k > Len(seriesuids) THEN st
    ELSE LET uid == seriesuids[k]
             got == get_scan_by_seriesuid(st.cache, s, uid)
         IN  map_uids(seriesuids, k + 1, s,
                      [cache |-> got.cache,
                       queries |-> queries_after(st.queries, uid, got),
                       lookup |-> [uid |-> uid, scan |-> got.scan],
                       mapping |-> mapping_after(st.mapping, uid, got.scan)])

\* map_luna16_to_lidc(seriesuids)
map_luna16_to_lidc(seriesuids, s, cache, queries, last) ==
    map_uids(seriesuids, 1, s,
             [cache |-> cache, queries |-> queries, lookup |-> last,
              mapping |-> NoMapping])

MapLuna16ToLidc ==
    \E seriesuids \in SeqsUpTo(Uids, MaxBatch) :
        LET done == map_luna16_to_lidc(seriesuids, scan, scan_cache, store_queries,
                                       lookup)
        IN  /\ batch.op = "none"
            /\ batch' = [op |-> "map_luna16_to_lidc", seriesuids |-> seriesuids,
                         mapping |-> done.mapping]
            /\ scan_cache' = done.cache
            /\ store_queries' = done.queries
            /\ lookup' = done.lookup
            /\ UNCHANGED <<scan, frame, result, conversion, calls>>

\* the batch mapping, after any lookups that filled the cache
NextBatch ==
    \/ GetScanBySeriesuid
    \/ MapLuna16ToLidc

SpecBatch == InitCache /\ [][NextBatch]_vars

\* get_scan_by_seriesuid called by several threads on one loader, a
\* statement at a time: thread t starts a call with some uid
CallBegin(t) ==
    \E seriesuid \in Uids :
        /\ calls[t].pc = "idle"
        /\ calls' = [calls EXCEPT ![t] = [pc |-> "check", uid |-> seriesuid,
                                          scan |-> NoScan]]
        /\ UNCHANGED <<scan, frame, scan_cache, store_queries, lookup, result,
                       conversion, batch>>

\* "if seriesuid in self._scan_cache:"
CacheCheck(t) ==
    /\ calls[t].pc = "check"
    /\ calls' = [calls EXCEPT ![t].pc =
                    IF calls[t].uid \in DOMAIN scan_cache THEN "hit" ELSE "query"]
    /\ UNCHANGED <<scan, frame, scan_cache, store_queries, lookup, result,
                   conversion, batch>>

\* "return self._scan_cache[seriesuid]"
CacheHit(t) ==
    /\ calls[t].pc = "hit"
    /\ calls[t].uid \in DOMAIN scan_cache
    /\ calls' = [calls EXCEPT ![t].pc = "done", ![t].scan = scan_cache[calls[t].uid]]
    /\ lookup' = [uid |-> calls[t].uid, scan |-> scan_cache[calls[t].uid]]
    /\ UNCHANGED <<scan, frame, scan_cache, store_queries, result, conversion, batch>>

\* "scan = pl.query(Scan).filter(...).first()"
StoreQuery(t) ==
    /\ calls[t].pc = "query"
    /\ calls' = [calls EXCEPT ![t].pc = "insert",
                              ![t].scan = query_scan(scan, calls[t].uid)]
    /\ store_queries' = [store_queries EXCEPT ![calls[t].uid] = @ + 1]
    /\ UNCHANGED <<scan, frame, scan_cache, lookup, result, conversion, batch>>

\* "if scan: self._scan_cache[seriesuid] = scan" and "return scan"
CacheInsert(t) ==
    /\ calls[t].pc = "insert"
    /\ scan_cache' = scan_cache_after(scan_cache, calls[t].uid, calls[t].scan)
    /\ calls' = [calls EXCEPT ![t].pc = "done"]
    /\ lookup' = [uid |-> calls[t].uid, scan |-> calls[t].scan]
    /\ UNCHANGED <<scan, frame, store_queries, result, conversion, batch>>

InitThreads ==
    /\ scan \in {NoScan} \cup {StoredScan(u, <<>>) : u \in Uids}
    /\ frame = Frame(0, 1, <<3, 4, 4>>)
    /\ scan_cache = EmptyCache
    /\ store_queries = [u \in Uids |-> 0]
    /\ lookup = NoLookup
    /\ result = NoCall
    /\ conversion = NoConversion
    /\ batch = NoBatch
    /\ calls = NoCalls

NextThreads ==
    \E t \in Threads :
        \/ CallBegin(t)
        \/ CacheCheck(t)
        \/ CacheHit(t)
        \/ StoreQuery(t)
        \/ CacheInsert(t)

SpecThreads == InitThreads /\ [][NextThreads]_vars

\* get_aligned_mask on an annotation of three square contours, at 10, 11
\* and 12 mm, in a volume of 20 x 20 x 20 voxels of 1 mm at the origin
SquareAnnotation(r0, c0, r1, c1) ==
    Annotation(<<Contour(10, Square(r0, c0, r1, c1)),
                 Contour(11, Square(r0, c0, r1, c1)),
                 Contour(12, Square(r0, c0, r1, c1))>>,
               <<3, r1 - r0 + 1, c1 - c0 + 1>>,
               Indices(<<3, r1 - r0 + 1, c1 - c0 + 1>>),
               <<Slice(10, 13), Slice(r0, r1 + 1), Slice(c0, c1 + 1)>>)

SquareAnnotations ==
    {SquareAnnotation(r0, c0, r1, c1) : r0 \in 4..6, c0 \in 4..6,
                                        r1 \in 8..10, c1 \in 8..10}

InitSquare ==
    /\ scan \in {StoredScan(SeriesUid, <<a>>) : a \in SquareAnnotations}
    /\ frame = Frame(0, 1, <<20, 20, 20>>)
    /\ scan_cache = EmptyCache
    /\ store_queries = [u \in Uids |-> 0]
    /\ lookup = NoLookup
    /\ result = NoCall
    /\ conversion = NoConversion
    /\ batch = NoBatch
    /\ calls = NoCalls

NextSquare == GetAlignedMask

SpecSquare == InitSquare /\ [][NextSquare]_vars

\* the coordinate conversions of LUNA16DataLoader alone: a point (z, y, x)
\* in mm is converted to voxel indices and the indices are converted back
Points == {<<z, y, x>> : z \in -MaxCoord..MaxCoord, y \in -MaxCoord..MaxCoord,
                         x \in -MaxCoord..MaxCoord}

CoordFrames ==
    {[origin |-> o, spacing |-> sp, ct_shape |-> <<3, 4, 4>>] :
        o \in {<<0, 0, 0>>, <<-2, 1, 0>>},
        sp \in {<<1, 1, 1>>, <<2, 1, 2>>, <<2, 3, 4>>}}

WorldToVoxel ==
    \E world_coords \in Points :
        /\ conversion.op = "none"
        /\ conversion' = [op |-> "world_to_voxel", world |-> world_coords,
                          voxel |-> world_to_voxel(world_coords, frame.origin,
                                                   frame.spacing),
                          back |-> <<0, 0, 0>>]
        /\ UNCHANGED <<scan, frame, scan_cache, store_queries, lookup, result, batch, calls>>

VoxelToWorld ==
    /\ conversion.op = "world_to_voxel"
    /\ conversion' = [conversion EXCEPT
                         !.op = "voxel_to_world",
                         !.back = voxel_to_world(conversion.voxel, frame.origin,
                                                 frame.spacing)]
    /\ UNCHANGED <<scan, frame, scan_cache, store_queries, lookup, result, batch, calls>>

InitCoords ==
    /\ scan = NoScan
    /\ frame \in CoordFrames
    /\ scan_cache = EmptyCache
    /\ store_queries = [u \in Uids |-> 0]
    /\ lookup = NoLookup
    /\ result = NoCall
    /\ conversion = NoConversion
    /\ batch = NoBatch
    /\ calls = NoCalls

NextCoords ==
    \/ WorldToVoxel
    \/ VoxelToWorld

SpecCoords == InitCoords /\ [][NextCoords]_vars

\* the native fusion alone; the frame of the LUNA16 volume plays no part
InitFusion == Init /\ frame = Frame(0, 1, <<3, 4, 4>>)

NextFusion == GetConsensusMask

SpecFusion == InitFusion /\ [][NextFusion]_vars

\* the reconstructions in the frame of the LUNA16 volume alone
NextAligned ==
    \/ GetAlignedMask
    \/ GetAlignedConsensusMask
    \/ GetAlignedMaskForCluster

SpecAligned == Init /\ [][NextAligned]_vars

----------------------------------------------------------------------------
(* Vocabulary of the properties                                            *)

\* the cluster of the scan's only nodule, as the calls see it
TheCluster == scan.annotations

NativeOps == {"get_consensus_mask"}

AlignedConsensusOps == {"get_aligned_consensus_mask", "get_aligned_mask_for_cluster"}

ConsensusOps == NativeOps \cup AlignedConsensusOps

\* a call that reached the cluster: the scan exists and the index names it
\* (get_aligned_mask_for_cluster is handed the cluster itself)
OnCluster ==
    \/ result.op = "get_aligned_mask_for_cluster"
    \/ /\ result.op \in {"get_consensus_mask", "get_aligned_consensus_mask"}
       /\ scan.exists /\ Len(TheCluster) > 0 /\ result.idx = 0

\* the voxels a mask placed at its bounding box marks, in frame coordinates
AbsTrue(mask, bbox) ==
    {<<v[1] + bbox[1].start, v[2] + bbox[2].start, v[3] + bbox[3].start>> :
        v \in mask.true}

AbsVoxel(v, bbox) == <<v[1] + bbox[1].start, v[2] + bbox[2].start, v[3] + bbox[3].start>>

\* the voxels annotation a marks in the native frame
NativeTrue(a) == AbsTrue(a.mask, a.bbox)

\* what get_aligned_mask gives for annotation a alone in the current frame
AlignedAlone(a) == aligned_mask(a, frame.origin, frame.spacing, frame.ct_shape)

\* the voxels annotation a marks in the current frame
AlignedTrue(a) ==
    LET alone == AlignedAlone(a)
    IN  IF alone.ok THEN AbsTrue(alone.mask, alone.bbox) ELSE {}

\* the contours of annotation a whose z index is a slice of the volume
InRange(a) ==
    {k \in 1..Len(a.contours) :
        /\ 0 <= z_index(a.contours[k].z, frame.origin, frame.spacing)
        /\ z_index(a.contours[k].z, frame.origin, frame.spacing) < frame.ct_shape[1]}

\* the voxels (frame coordinates) of the volume that contour k of
\* annotation a encloses on its slice
ContourVoxels(a, k) ==
    {<<z_index(a.contours[k].z, frame.origin, frame.spacing), rc[1], rc[2]>> :
        rc \in polygon(Rows(a.contours[k]), Cols(a.contours[k]),
                       <<frame.ct_shape[2], frame.ct_shape[3]>>)}

\* the voxels (frame coordinates) that a vote rule marks: count(p) of n
\* annotations reach the threshold
Reaches(cnt, n, threshold) == cnt * threshold.den >= threshold.num * n

----------------------------------------------------------------------------
(* C1: with N >= 1 masks in a common frame and a threshold in (0,1], a     *)
(* voxel of the fused frame is True in the consensus mask iff the number   *)
(* of annotations whose mask is True there, over N, is >= threshold; the   *)
(* votes of overlapping masks are summed.  Native fusion, and aligned      *)
(* consensus of a cluster in which every annotation gives a mask.          *)
C1_VoteThreshold ==
    (OnCluster /\ result.op \in ConsensusOps /\ result.ret.ok
         /\ ValidThreshold(result.threshold)
         /\ (result.op \in AlignedConsensusOps =>
                \A a \in 1..Len(TheCluster) : AlignedAlone(TheCluster[a]).ok))
    => LET ret == result.ret
           n == Len(TheCluster)
           marks == [a \in 1..n |->
                       IF result.op \in NativeOps THEN NativeTrue(TheCluster[a])
                       ELSE AlignedTrue(TheCluster[a])]
           cnt(v) == Cardinality({a \in 1..n : AbsVoxel(v, ret.bbox) \in marks[a]})
       IN  /\ ret.mask.true \subseteq Indices(ret.mask.shape)
           /\ DOMAIN ret.votes.count = Indices(ret.mask.shape)
           /\ \A v \in Indices(ret.mask.shape) :
                 /\ ret.votes.count[v] = cnt(v)
                 /\ (v \in ret.mask.true <=> Reaches(cnt(v), n, result.threshold))

(* C2: for a non-empty list of (mask, bbox) pairs, the bounding box that   *)
(* get_consensus_mask returns has on each axis start = the minimum of the  *)
(* input starts and stop = the maximum of the input stops, and the fused   *)
(* shape is stop - start.                                                  *)
C2_FusedBBox ==
    (result.op = "get_consensus_mask" /\ OnCluster)
    => /\ result.ret.ok
       /\ \A i \in 1..3 :
            LET b == result.ret.bbox[i]
                n == Len(TheCluster)
            IN  /\ \A a \in 1..n : b.start <= TheCluster[a].bbox[i].start
                /\ \E a \in 1..n : b.start = TheCluster[a].bbox[i].start
                /\ \A a \in 1..n : b.stop >= TheCluster[a].bbox[i].stop
                /\ \E a \in 1..n : b.stop = TheCluster[a].bbox[i].stop
                /\ result.ret.mask.shape[i] = b.stop - b.start

\* a fusion in which no single input box is the fused box: the minimum
\* start and the maximum stop of some axis come from different inputs, and
\* the first input gives neither
C2_Witness ==
    /\ result.op = "get_consensus_mask" /\ OnCluster /\ result.ret.ok
    /\ Len(TheCluster) >= 2
    /\ \E i \in 1..3 :
          /\ TheCluster[1].bbox[i].start > result.ret.bbox[i].start
          /\ TheCluster[1].bbox[i].stop < result.ret.bbox[i].stop

(* C3: in the fusion, for every input whose mask shape equals its bbox     *)
(* extents, the offset input_start - fused_start is >= 0 and offset + mask *)
(* extent <= fused extent on every axis: the mask is written inside the    *)
(* vote volume, whole.                                                     *)
C3_PlacementInside ==
    (result.op = "get_consensus_mask" /\ OnCluster)
    => LET pairs == collect_masks_and_bboxes(TheCluster)
           starts == min_starts(pairs)
           shape == combined_shape(pairs)
       IN  /\ \A a \in 1..Len(pairs) :
                 pairs[a].mask.shape = Extent(pairs[a].bbox)
                 => LET off == offsets(pairs[a].bbox, starts)
                        sl == vote_slices(off, pairs[a].mask.shape, shape)
                    IN  \A i \in 1..3 :
                          /\ off[i] >= 0
                          /\ off[i] + pairs[a].mask.shape[i] <= shape[i]
                          /\ sl[i] = Slice(off[i], off[i] + pairs[a].mask.shape[i])
           /\ result.ret.ok

\* a fusion with an input placed at a positive offset that ends before the
\* end of the vote volume
C3_Witness ==
    /\ result.op = "get_consensus_mask" /\ OnCluster /\ result.ret.ok
    /\ LET pairs == collect_masks_and_bboxes(TheCluster)
       IN  \E a \in 1..Len(pairs) : \E i \in 1..3 :
              /\ offsets(pairs[a].bbox, min_starts(pairs))[i] > 0
              /\ offsets(pairs[a].bbox, min_starts(pairs))[i] + pairs[a].mask.shape[i]
                    < combined_shape(pairs)[i]

(* C4: every (mask, bbox) that get_consensus_mask, get_aligned_mask,       *)
(* get_aligned_consensus_mask and get_aligned_mask_for_cluster return has  *)
(* mask.shape[i] = bbox[i].stop - bbox[i].start on each axis.              *)
C4_ShapeIsExtent ==
    result.ret.ok
    => /\ \A i \in 1..3 :
            result.ret.mask.shape[i] = result.ret.bbox[i].stop - result.ret.bbox[i].start
       /\ result.ret.mask.true \subseteq Indices(result.ret.mask.shape)

\* an aligned mask of two slices with a True voxel in the last one
C4_Witness ==
    /\ result.op = "get_aligned_mask" /\ result.ret.ok
    /\ result.ret.mask.shape[1] = 2
    /\ \E v \in result.ret.mask.true : v[1] = 1

(* C5: in the aligned consensus vote each annotation adds at most 1 to a   *)
(* voxel of the vote volume, however many of its contours cover the voxel  *)
(* (several contours of one annotation on one z index included): a voxel's *)
(* vote is the number of annotations with a contour covering it.           *)
C5_OneVotePerAnnotation ==
    (result.op \in AlignedConsensusOps /\ OnCluster /\ result.ret.ok)
    => LET covered == [a \in 1..Len(TheCluster) |->
                          UNION {ContourVoxels(TheCluster[a], k) : k \in InRange(TheCluster[a])}]
       IN  \A v \in DOMAIN result.ret.votes.count :
              /\ result.ret.votes.count[v] =
                    Cardinality({a \in 1..Len(TheCluster) :
                                    AbsVoxel(v, result.ret.bbox) \in covered[a]})
              /\ result.ret.votes.count[v] <= Len(TheCluster)

\* a voxel covered by two contours of one annotation on the same z index
\* holds one vote
C5_Witness ==
    /\ result.op \in AlignedConsensusOps /\ OnCluster /\ result.ret.ok
    /\ Len(TheCluster) = 1
    /\ \E v \in DOMAIN result.ret.votes.count :
          /\ result.ret.votes.count[v] = 1
          /\ Cardinality({k \in InRange(TheCluster[1]) :
                 AbsVoxel(v, result.ret.bbox) \in ContourVoxels(TheCluster[1], k)}) = 2

(* C6: in a consensus reconstruction into a target frame, annotations that *)
(* fail on their own (no contour, or every contour outside the slice       *)
(* range) are skipped: the vote volume is divided by the number of         *)
(* annotations that contributed a mask, not by the size of the cluster.    *)
Contributors == {a \in 1..Len(TheCluster) : AlignedAlone(TheCluster[a]).ok}

C6_DividedByContributors ==
    (result.op \in AlignedConsensusOps /\ OnCluster /\ result.ret.ok
        /\ ValidThreshold(result.threshold))
    => result.ret.votes.n = Cardinality(Contributors)

(* C7: get_aligned_mask rasterizes exactly the contours whose z index z    *)
(* has 0 <= z < ct_shape[0], drops the others without error, and returns   *)
(* None when the annotation has no contour or every contour is dropped.    *)
C7_InRangeContoursOnly ==
    (result.op = "get_aligned_mask" /\ scan.exists
        /\ 0 <= result.idx /\ result.idx < Len(scan.annotations))
    => LET ann == scan.annotations[result.idx + 1]
           kept == UNION {ContourVoxels(ann, k) : k \in InRange(ann)}
           inside == \A k \in InRange(ann) : \A p \in 1..Len(ann.contours[k].pts) :
                        /\ 0 <= ann.contours[k].pts[p][1]
                        /\ ann.contours[k].pts[p][1] < frame.ct_shape[2]
                        /\ 0 <= ann.contours[k].pts[p][2]
                        /\ ann.contours[k].pts[p][2] < frame.ct_shape[3]
       IN  /\ InRange(ann) = {} => ~result.ret.ok
           /\ result.ret.ok => AbsTrue(result.ret.mask, result.ret.bbox) = kept
           /\ (InRange(ann) # {} /\ inside) => result.ret.ok

\* an annotation with a contour below the volume and a contour inside it:
\* the mask holds the second alone
C7_Witness ==
    /\ result.op = "get_aligned_mask" /\ scan.exists
    /\ 0 <= result.idx /\ result.idx < Len(scan.annotations)
    /\ result.ret.ok /\ result.ret.mask.true # {}
    /\ LET ann == scan.annotations[result.idx + 1]
       IN  /\ InRange(ann) # {}
           /\ \E k \in 1..Len(ann.contours) :
                 /\ k \notin InRange(ann)
                 /\ ContourVoxels(ann, k) # {}

(* C8: a consensus call with a threshold outside (0,1] is reported as a    *)
(* contract violation: it never returns a mask computed with it.           *)
C8_InvalidThresholdRejected ==
    (result.op \in ConsensusOps /\ ~ValidThreshold(result.threshold))
    => ~result.ret.ok

(* C9: a consensus reconstruction over an empty cluster, or over a cluster *)
(* in which no annotation has a contour inside the target slice range,     *)
(* returns None, never an empty mask.                                      *)
C9_NoUsableMaskFails ==
    /\ (result.op \in ConsensusOps /\ Len(TheCluster) = 0) => ~result.ret.ok
    /\ (result.op \in AlignedConsensusOps
           /\ \A a \in 1..Len(TheCluster) : InRange(TheCluster[a]) = {})
       => ~result.ret.ok

\* a cluster of annotations with contours, all of them outside the slice
\* range of the volume, handed to get_aligned_mask_for_cluster
C9_Witness ==
    /\ result.op = "get_aligned_mask_for_cluster" /\ ~result.ret.ok
    /\ Len(TheCluster) > 0
    /\ \A a \in 1..Len(TheCluster) :
          Len(TheCluster[a].contours) > 0 /\ InRange(TheCluster[a]) = {}

(* C10: for two annotations whose masks partially overlap (non-empty       *)
(* intersection, non-empty symmetric difference) the consensus mask at     *)
(* threshold 1.0 is exactly the intersection of the two masks, and at      *)
(* threshold 1e-6 exactly their union.                                     *)
PartialOverlap(A, B) == A \cap B # {} /\ A # B

C10_IntersectionAndUnion ==
    (result.op = "get_consensus_mask" /\ OnCluster /\ Len(TheCluster) = 2
        /\ PartialOverlap(NativeTrue(TheCluster[1]), NativeTrue(TheCluster[2])))
    => /\ result.ret.ok
       /\ result.threshold = Threshold(1, 1)
          => AbsTrue(result.ret.mask, result.ret.bbox)
                = NativeTrue(TheCluster[1]) \cap NativeTrue(TheCluster[2])
       /\ result.threshold = Threshold(1, 1000000)
          => AbsTrue(result.ret.mask, result.ret.bbox)
                = NativeTrue(TheCluster[1]) \cup NativeTrue(TheCluster[2])

\* two partially overlapping masks fused at threshold 1.0: the result is
\* neither empty nor one of the inputs
C10_Witness ==
    /\ result.op = "get_consensus_mask" /\ OnCluster /\ Len(TheCluster) = 2
    /\ PartialOverlap(NativeTrue(TheCluster[1]), NativeTrue(TheCluster[2]))
    /\ result.threshold = Threshold(1, 1) /\ result.ret.ok
    /\ AbsTrue(result.ret.mask, result.ret.bbox) # {}
    /\ AbsTrue(result.ret.mask, result.ret.bbox) # NativeTrue(TheCluster[1])
    /\ AbsTrue(result.ret.mask, result.ret.bbox) # NativeTrue(TheCluster[2])

(* C11: when each of the N >= 1 masks of a cluster is all True over the    *)
(* whole fused shape, every voxel has N votes of N and the consensus mask  *)
(* of get_consensus_mask is all True for every threshold in (0,1].         *)
FullOverFusedShape(cluster) ==
    \A a \in 1..Len(cluster) :
        /\ cluster[a].mask.true = Indices(cluster[a].mask.shape)
        /\ cluster[a].bbox = cluster[1].bbox

C11_AllTrueStaysAllTrue ==
    (result.op = "get_consensus_mask" /\ OnCluster
        /\ FullOverFusedShape(TheCluster) /\ ValidThreshold(result.threshold))
    => /\ result.ret.ok
       /\ result.ret.mask.shape = Extent(TheCluster[1].bbox)
       /\ \A v \in Indices(result.ret.mask.shape) :
             /\ result.ret.votes.count[v] = result.ret.votes.n
             /\ v \in result.ret.mask.true

\* three identical all-True masks of eight voxels fused at threshold 1.0
C11_Witness ==
    /\ result.op = "get_consensus_mask" /\ OnCluster
    /\ Len(TheCluster) = 3 /\ FullOverFusedShape(TheCluster)
    /\ result.threshold = Threshold(1, 1)
    /\ Cardinality(result.ret.mask.true) = 8

(* C12: in a cluster of 3 annotations reconstructed into the frame of the  *)
(* volume, a voxel that exactly one annotation marks is left out of the    *)
(* consensus mask at threshold 0.5 and is in it at threshold 0.3.          *)
C12_OneOfThree ==
    (result.op \in AlignedConsensusOps /\ OnCluster /\ Len(TheCluster) = 3
        /\ result.ret.ok)
    => LET ret == result.ret
           marks == [a \in 1..3 |-> AlignedTrue(TheCluster[a])]
           alone(v) == Cardinality({a \in 1..3 : AbsVoxel(v, ret.bbox) \in marks[a]}) = 1
       IN  \A v \in Indices(ret.mask.shape) :
              alone(v) =>
                 /\ result.threshold = Threshold(1, 2) => v \notin ret.mask.true
                 /\ result.threshold = Threshold(3, 10) => v \in ret.mask.true

\* three annotations at threshold 0.3: a voxel only one of them marks is in
\* the consensus mask
C12_Witness ==
    /\ result.op = "get_aligned_consensus_mask" /\ OnCluster
    /\ Len(TheCluster) = 3 /\ result.ret.ok
    /\ result.threshold = Threshold(3, 10)
    /\ \E v \in result.ret.mask.true :
          Cardinality({a \in 1..3 :
              AbsVoxel(v, result.ret.bbox) \in AlignedTrue(TheCluster[a])}) = 1

(* C13: for an annotation with contours at 10, 11 and 12 mm, each the      *)
(* square with corners at rows 5 and 9 and columns 5 and 9, reconstructed  *)
(* by get_aligned_mask into a volume of shape (20,20,20) with origin 0 and *)
(* spacing 1, the mask placed at its bounding box is True exactly at       *)
(* z in {10,11,12}, rows 5..8, columns 5..8.                               *)
C13_SquareHalfOpen ==
    (result.op = "get_aligned_mask" /\ result.idx = 0
        /\ scan.annotations = <<SquareAnnotation(5, 5, 9, 9)>>
        /\ frame = Frame(0, 1, <<20, 20, 20>>))
    => /\ result.ret.ok
       /\ AbsTrue(result.ret.mask, result.ret.bbox)
             = {<<z, r, c>> : z \in 10..12, r \in 5..8, c \in 5..8}

(* C14: the bounding box that get_consensus_mask returns contains the      *)
(* bounding box of every annotation of the cluster, and its extent         *)
(* (stop - start) on each axis is at least the extent of each of them.     *)
C14_FusedBoxContainsAll ==
    (result.op = "get_consensus_mask" /\ OnCluster /\ result.ret.ok)
    => \A a \in 1..Len(TheCluster) : \A i \in 1..3 :
          /\ result.ret.bbox[i].start <= TheCluster[a].bbox[i].start
          /\ TheCluster[a].bbox[i].stop <= result.ret.bbox[i].stop
          /\ Extent(result.ret.bbox)[i] >= Extent(TheCluster[a].bbox)[i]
          /\ result.ret.mask.shape[i] >= TheCluster[a].mask.shape[i]

\* a fusion whose box is, on some axis, longer than the box of each of the
\* annotations fused
C14_Witness ==
    /\ result.op = "get_consensus_mask" /\ OnCluster /\ result.ret.ok
    /\ Len(TheCluster) >= 2
    /\ \E i \in 1..3 : \A a \in 1..Len(TheCluster) :
          Extent(result.ret.bbox)[i] > Extent(TheCluster[a].bbox)[i]

(* C15: the conversion from mm to voxel indices rounds                     *)
(* (mm - origin) / spacing to the nearest integer with a tie rounded away  *)
(* from zero (0.5 to 1, 2.5 to 3, -0.5 to -1), in world_to_voxel and in    *)
(* the z index of the aligned-mask operations.                             *)
RoundHalfAwayFromZero(n, d) ==
    IF n >= 0 THEN (2 * n + d) \div (2 * d) ELSE -((2 * (-n) + d) \div (2 * d))

C15_TiesAwayFromZero ==
    conversion.op = "world_to_voxel"
    => /\ \A i \in 1..3 :
             conversion.voxel[i] =
                RoundHalfAwayFromZero(conversion.world[i] - frame.origin[i],
                                      frame.spacing[i])
       /\ z_index(conversion.world[1], frame.origin, frame.spacing) =
             RoundHalfAwayFromZero(conversion.world[1] - frame.origin[1],
                                   frame.spacing[1])

(* C16: the z index that the aligned-mask operations compute for a z       *)
(* position equals the z component that world_to_voxel returns for the     *)
(* same position, origin and spacing, at exact half-voxel ties too.        *)
C16_SameRoundingEverywhere ==
    conversion.op = "world_to_voxel"
    => z_index(conversion.world[1], frame.origin, frame.spacing) = conversion.voxel[1]

HalfVoxelTie(i) ==
    (2 * (conversion.world[i] - frame.origin[i])) % (2 * frame.spacing[i])
        = frame.spacing[i]

\* a z position exactly between two slices, below the origin
C16_Witness ==
    /\ conversion.op = "world_to_voxel"
    /\ HalfVoxelTie(1)
    /\ conversion.world[1] < frame.origin[1]

(* C17: converting a point to voxel indices and back gives a point within  *)
(* half the spacing of the original on each axis, and the index of an axis *)
(* depends on the coordinate of that axis only.                            *)
C17_RoundTripWithinHalfVoxel ==
    conversion.op = "voxel_to_world"
    => \A i \in 1..3 :
          LET d == conversion.back[i] - conversion.world[i]
          IN  /\ 2 * d <= frame.spacing[i]
              /\ -2 * d <= frame.spacing[i]
              /\ \A q \in Points :
                    q[i] = conversion.world[i]
                    => world_to_voxel(q, frame.origin, frame.spacing)[i]
                          = conversion.voxel[i]

\* a round trip that moves the point by exactly half the spacing on one
\* axis and leaves it in place on another
C17_Witness ==
    /\ conversion.op = "voxel_to_world"
    /\ \E i \in 1..3 : HalfVoxelTie(i) /\ conversion.back[i] # conversion.world[i]
    /\ \E i \in 1..3 : conversion.back[i] = conversion.world[i]
    /\ frame.origin # <<0, 0, 0>>

(* C18: the scan cache is read-through: whatever get_scan_by_seriesuid    *)
(* calls are made, the store is queried at most once per uid, because the  *)
(* result of a lookup, a not-found result included, is kept in the cache.  *)
C18_OneQueryPerUid ==
    /\ \A u \in Uids : store_queries[u] <= 1
    /\ lookup # NoLookup => lookup.uid \in DOMAIN scan_cache

(* C19: the lookup of a scan by uid is case-insensitive: two uids that     *)
(* differ only in letter case get the same scan record, or both none,      *)
(* from the store or from the cache.                                       *)
lower(ch) == IF ch = "A" THEN "a" ELSE IF ch = "B" THEN "b" ELSE ch

casefold(uid) == [i \in 1..Len(uid) |-> lower(uid[i])]

C19_CaseInsensitiveLookup ==
    lookup # NoLookup
    => \A u \in Uids :
          casefold(u) = casefold(lookup.uid)
          => get_scan_by_seriesuid(scan_cache, scan, u).scan = lookup.scan

(* C20: when the scan does not exist, or the index is not a position of    *)
(* the scan's annotation / cluster list (any integer outside 0..len-1,     *)
(* negative ones included), get_annotation_mask, get_consensus_mask,       *)
(* get_aligned_mask and get_aligned_consensus_mask return None; they never *)
(* return the mask of another annotation or cluster.                       *)
IndexedLength ==
    IF result.op \in {"get_annotation_mask", "get_aligned_mask"}
    THEN Len(scan.annotations)
    ELSE Len(nodule_clusters(scan))

C20_NotFoundIsNone ==
    (result.op \in {"get_annotation_mask", "get_consensus_mask",
                    "get_aligned_mask", "get_aligned_consensus_mask"}
        /\ (~scan.exists \/ result.idx < 0 \/ result.idx >= IndexedLength))
    => result.ret = NoneResult

(* C21: a reconstruction that finds the scan and the index but no contour  *)
(* representable in the frame (EmptyResult) returns a value different from *)
(* the one the same call returns when the scan does not exist (NotFound).  *)
C21_EmptyResultIsNotNotFound ==
    /\ (result.op = "get_aligned_mask" /\ scan.exists
           /\ 0 <= result.idx /\ result.idx < Len(scan.annotations)
           /\ InRange(scan.annotations[result.idx + 1]) = {})
       => result.ret # get_aligned_mask(NoScan, result.idx, frame.origin,
                                        frame.spacing, frame.ct_shape)
    /\ (result.op = "get_aligned_consensus_mask" /\ OnCluster
           /\ \A a \in 1..Len(TheCluster) : InRange(TheCluster[a]) = {})
       => result.ret # get_aligned_consensus_mask(NoScan, result.idx, frame.origin,
                            frame.spacing, frame.ct_shape, result.threshold)

(* C22: every (mask, bbox) that a reconstruction returns, native or        *)
(* aligned, of one annotation or of a cluster, has positive extent on the  *)
(* three axes and at least one True voxel.                                 *)
C22_NoEmptyMaskReturned ==
    (result.op # "none" /\ result.ret.ok /\ result.idx >= 0
        /\ (result.op \in ConsensusOps => ValidThreshold(result.threshold)))
    => /\ \A i \in 1..3 : Extent(result.ret.bbox)[i] > 0
       /\ \A i \in 1..3 : result.ret.mask.shape[i] > 0
       /\ result.ret.mask.true # {}

(* C23: get_consensus_mask and the aligned-mask operations leave their     *)
(* inputs as they were, whether they succeed or fail: the masks, bounding  *)
(* boxes and contour points of every annotation, and origin, spacing and   *)
(* ct_shape; the mask they return is an array allocated during the call    *)
(* and shares memory with none of them.                                    *)
C23_InputsUntouched ==
    [][ (result'.op \in ConsensusOps \cup {"get_aligned_mask"} /\ result.op = "none")
        => /\ scan' = scan
           /\ frame' = frame
           /\ result'.ret.ok
              => /\ result'.returned[1] = "new"
                 /\ result'.returned \notin InputObjects(scan.annotations) ]_vars

\* the memory that the call recorded in result left behind
LeftByCall ==
    LET mem == Memory(scan.annotations, frame)
    IN  IF result.op = "get_consensus_mask"
        THEN get_consensus_mask_in_memory(mem, scan, result.idx, result.threshold)
        ELSE IF result.op = "get_aligned_mask"
        THEN get_aligned_mask_in_memory(mem, scan, result.idx)
        ELSE IF result.op = "get_aligned_consensus_mask"
        THEN get_aligned_consensus_mask_in_memory(mem, scan, result.idx, result.threshold)
        ELSE IF result.op = "get_aligned_mask_for_cluster"
        THEN get_aligned_mask_for_cluster_in_memory(mem, scan.annotations, result.threshold)
        ELSE get_annotation_mask_in_memory(mem, scan, result.idx)

\* a consensus of two annotations in the frame whose box starts right of
\* column 0, so that the columns of every contour were shifted before the
\* fill, has returned a newly allocated array that holds the returned mask
C23_Witness ==
    /\ OnCluster /\ result.ret.ok /\ Len(TheCluster) = 2
    /\ result.op = "get_aligned_consensus_mask"
    /\ result.ret.bbox[3].start > 0
    /\ result.returned[1] = "new"
    /\ result.returned \notin InputObjects(scan.annotations)
    /\ Content(LeftByCall.mem, result.returned) = result.ret.mask

(* C24: map_luna16_to_lidc returns, for every list of uids, a mapping with *)
(* an entry for each uid of the list: the patient id of the scan when the  *)
(* store has it and None when it has not, whatever lookups before or after *)
(* it in the list failed.                                                  *)
C24_BatchMapsEveryUid ==
    batch.op = "map_luna16_to_lidc"
    => /\ DOMAIN batch.mapping = Range(batch.seriesuids)
       /\ \A u \in Range(batch.seriesuids) :
             batch.mapping[u] =
                IF scan.exists /\ scan.series_instance_uid = u
                THEN scan.patient_id ELSE "None"

\* a list of three uids of which the first and the last have no scan and
\* the second has one
C24_Witness ==
    /\ batch.op = "map_luna16_to_lidc"
    /\ Len(batch.seriesuids) = 3
    /\ batch.mapping[batch.seriesuids[1]] = "None"
    /\ batch.mapping[batch.seriesuids[2]] = "LIDC-IDRI-0001"
    /\ batch.mapping[batch.seriesuids[3]] = "None"
    /\ batch.seriesuids[1] # batch.seriesuids[3]

(* C25: under every interleaving of get_scan_by_seriesuid calls made by    *)
(* several threads on one loader, each call returns the store's record for *)
(* its own uid, and each cache entry holds the store's record for its own  *)
(* key; no call sees or overwrites the record of another uid.              *)
C25_ConcurrentLookupsAgree ==
    /\ \A t \in Threads :
          calls[t].pc = "done" => calls[t].scan = query_scan(scan, calls[t].uid)
    /\ \A u \in DOMAIN scan_cache :
          scan_cache[u].exists /\ scan_cache[u] = query_scan(scan, u)

\* two threads looked the same uid up, both missed the cache, both queried
\* the store and both inserted the scan
C25_Witness ==
    /\ scan.exists
    /\ calls[1].pc = "done" /\ calls[2].pc = "done"
    /\ calls[1].uid = scan.series_instance_uid
    /\ calls[2].uid = scan.series_instance_uid
    /\ store_queries[scan.series_instance_uid] = 2
    /\ scan.series_instance_uid \in DOMAIN scan_cache

(* C26: for a cluster in which every annotation has a contour inside the   *)
(* slice range of the volume, the bounding box of the aligned consensus    *)
(* is the fusion (per axis, minimum of the starts and maximum of the       *)
(* stops) of the bounding boxes that get_aligned_mask returns for the      *)
(* annotations of the cluster one by one.                                  *)
C26_ConsensusBoxIsFusedBox ==
    (result.op \in AlignedConsensusOps /\ OnCluster /\ Len(TheCluster) > 0
        /\ \A a \in 1..Len(TheCluster) : InRange(TheCluster[a]) # {}
        /\ result.ret.ok)
    => LET alone == [a \in 1..Len(TheCluster) |-> AlignedAlone(TheCluster[a])]
           given == {a \in 1..Len(TheCluster) : alone[a].ok}
       IN  /\ given # {}
           /\ \A i \in 1..3 :
                 /\ result.ret.bbox[i].start =
                       SetMin({alone[a].bbox[i].start : a \in given})
                 /\ result.ret.bbox[i].stop =
                       SetMax({alone[a].bbox[i].stop : a \in given})

(* C27: every bounding box that get_aligned_mask,                          *)
(* get_aligned_consensus_mask and get_aligned_mask_for_cluster return lies *)
(* inside the volume:                                                      *)
(* on each axis 0 <= start < stop <= ct_shape[axis], also when contour     *)
(* points lie outside the rows or columns of the volume.                   *)
C27_BoxInsideVolume ==
    (result.op \in AlignedConsensusOps \cup {"get_aligned_mask"} /\ result.ret.ok
        /\ result.idx >= 0)
    => \A i \in 1..3 :
          /\ 0 <= result.ret.bbox[i].start
          /\ result.ret.bbox[i].start < result.ret.bbox[i].stop
          /\ result.ret.bbox[i].stop <= frame.ct_shape[i]

(* C28: for a fixed cluster and frame the consensus mask is monotone in    *)
(* the threshold: for t1 <= t2 in (0,1] the call succeeds at both or at    *)
(* neither, the bounding box is the same, and every voxel True at t2 is    *)
(* True at t1.                                                             *)
SameCallAt(threshold) ==
    IF result.op = "get_consensus_mask"
    THEN get_consensus_mask(scan, result.idx, threshold)
    ELSE IF result.op = "get_aligned_consensus_mask"
    THEN get_aligned_consensus_mask(scan, result.idx, frame.origin, frame.spacing,
                                    frame.ct_shape, threshold)
    ELSE get_aligned_mask_for_cluster(scan.annotations, frame.origin, frame.spacing,
                                      frame.ct_shape, threshold)

\* a / b <= c / d for a, c >= 0 and b, d > 0, by whole parts and then the
\* remainders turned upside down
RECURSIVE FractionAtMost(_, _, _, _)
FractionAtMost(a, b, c, d) ==
    IF a \div b # c \div d THEN a \div b < c \div d
    ELSE IF a % b = 0 THEN TRUE
    ELSE IF c % d = 0 THEN FALSE
    ELSE FractionAtMost(d, c % d, b, a % b)

AtMost(t1, t2) == FractionAtMost(t1.num, t1.den, t2.num, t2.den)

C28_MonotoneInThreshold ==
    (result.op \in ConsensusOps /\ OnCluster /\ ValidThreshold(result.threshold))
    => \A t2 \in {t \in Thresholds : ValidThreshold(t) /\ AtMost(result.threshold, t)} :
          LET higher == SameCallAt(t2)
          IN  /\ higher.ok = result.ret.ok
              /\ higher.bbox = result.ret.bbox
              /\ higher.mask.shape = result.ret.mask.shape
              /\ higher.mask.true \subseteq result.ret.mask.true

\* a mask at threshold 0.3 that holds a voxel the mask of the same cluster
\* at threshold 1.0 does not hold, while the latter is not empty
C28_Witness ==
    /\ result.op \in ConsensusOps /\ OnCluster /\ result.ret.ok
    /\ result.threshold = Threshold(3, 10)
    /\ SameCallAt(Threshold(1, 1)).mask.true # {}
    /\ SameCallAt(Threshold(1, 1)).mask.true # result.ret.mask.true

(* C29: for a cluster of a single annotation and a threshold in (0,1],     *)
(* get_aligned_mask_for_cluster returns the mask and the bounding box that *)
(* get_aligned_mask returns for that annotation in the same frame, and     *)
(* fails exactly when get_aligned_mask fails.                              *)
C29_SingletonClusterIsTheAnnotation ==
    (result.op = "get_aligned_mask_for_cluster" /\ Len(TheCluster) = 1
        /\ ValidThreshold(result.threshold))
    => LET alone == get_aligned_mask(scan, 0, frame.origin, frame.spacing,
                                     frame.ct_shape)
       IN  /\ result.ret.ok = alone.ok
           /\ result.ret.mask = alone.mask
           /\ result.ret.bbox = alone.bbox

\* a single annotation whose mask has True and False voxels, at threshold 1.0
C29_Witness ==
    /\ result.op = "get_aligned_mask_for_cluster" /\ Len(TheCluster) = 1
    /\ result.threshold = Threshold(1, 1) /\ result.ret.ok
    /\ result.ret.mask.true # {}
    /\ result.ret.mask.true # Indices(result.ret.mask.shape)

(* C30: get_aligned_consensus_mask for the nodule_idx-th cluster of a scan *)
(* and get_aligned_mask_for_cluster for that cluster return the same mask  *)
(* and bounding box, or both fail, for every frame and threshold.          *)
C30_SameAsForCluster ==
    (result.op = "get_aligned_consensus_mask" /\ OnCluster)
    => LET direct == get_aligned_mask_for_cluster(TheCluster, frame.origin,
                         frame.spacing, frame.ct_shape, result.threshold)
       IN  /\ result.ret.ok = direct.ok
           /\ result.ret.mask = direct.mask
           /\ result.ret.bbox = direct.bbox

\* a cluster with an annotation that has no contour in the slice range,
\* whose consensus mask at threshold 1.0 has a bounding box but no True voxel
C30_Witness ==
    /\ result.op = "get_aligned_consensus_mask" /\ OnCluster /\ result.ret.ok
    /\ Len(TheCluster) >= 2
    /\ \E a \in 1..Len(TheCluster) : InRange(TheCluster[a]) = {}
    /\ result.threshold = Threshold(1, 1)
    /\ result.ret.mask.true = {}
    /\ Indices(result.ret.mask.shape) # {}

============================================================================
